---------------------------- MODULE Spec2Model ----------------------------
(***************************************************************************)
(* RTX configurator: the option catalog, the selection mutator             *)
(* (Configurator.handleSelect), the host state of App (model, selections,  *)
(* tag, custom range, special request, quick-configuration code), the      *)
(* order-code codec (generateTransmitterModelNumber / handleApplyFullCode) *)
(* and the range validation of the performance calculator.                 *)
(*                                                                         *)
(* Text is modelled as a sequence of one-character strings, so that        *)
(* startsWith / substring / replace are computed position by position.     *)
(* A selection map is a function from category id to a code; the empty    *)
(* sequence stands for an absent key.                                      *)
(* Pressures are fixed-point integers in thousandths of the option's unit. *)
(*                                                                         *)
(* Specifications: Spec (host), MutatorSpec (handleSelect with any         *)
(* option), CodecSpec (generated code pasted and applied), DecodeSpec      *)
(* (prefix and code tokens applied), PerfSpec (performance calculator).    *)
(***************************************************************************)
EXTENDS Integers, Sequences, FiniteSets, TLC

(***************************************************************************)
(* Catalog (src/data/productData.ts)                                       *)
(***************************************************************************)
sharedHousingAndExplosionOptions ==
    <<[id |-> "communication", part |-> "required", validate |-> "none",
       options |-> <<[code |-> <<"H">>]>>],
    [id |-> "display", part |-> "required", validate |-> "none",
       options |-> <<[code |-> <<"N">>], [code |-> <<"Y">>]>>],
    [id |-> "housingType", part |-> "required", validate |-> "none",
       options |-> <<[code |-> <<"1">>], [code |-> <<"2">>]>>],
    [id |-> "explosionProof", part |-> "required", validate |-> "none",
       options |-> <<[code |-> <<"A","-">>], [code |-> <<"B","-">>], [code |-> <<"D","-">>], [code |-> <<"E","-">>], [code |-> <<"F","-">>]>>]>>

sharedAdditionalOptions ==
    <<[id |-> "mountingBracket", part |-> "additional", validate |-> "none",
       options |-> <<[code |-> <<"B","1">>], [code |-> <<"B","2">>], [code |-> <<"B","3">>], [code |-> <<"B","4">>], [code |-> <<"B","5">>], [code |-> <<"B","6">>], [code |-> <<"B","N">>]>>],
    [id |-> "electricalConnector", part |-> "additional", validate |-> "validateElectricalConnector",
       options |-> <<[code |-> <<"E","1">>], [code |-> <<"E","2">>], [code |-> <<"E","3">>], [code |-> <<"E","4">>], [code |-> <<"E","5">>], [code |-> <<"E","6">>], [code |-> <<"E","7">>], [code |-> <<"E","8">>], [code |-> <<"E","9">>], [code |-> <<"E","A">>]>>]>>

sharedAdditionalOptions2 ==
    <<[id |-> "additionalCertification", part |-> "additional", validate |-> "none",
       options |-> <<[code |-> <<"0">>]>>],
    [id |-> "lightningProtection", part |-> "additional", validate |-> "none",
       options |-> <<[code |-> <<"A">>], [code |-> <<"B">>]>>],
    [id |-> "alarmCurrent", part |-> "additional", validate |-> "none",
       options |-> <<[code |-> <<"C">>], [code |-> <<"D">>]>>],
    [id |-> "acceptanceData", part |-> "additional", validate |-> "none",
       options |-> <<[code |-> <<"E">>], [code |-> <<"F","1">>]>>],
    [id |-> "displayUnit", part |-> "additional", validate |-> "none",
       options |-> <<[code |-> <<"X","1">>], [code |-> <<"X","2">>], [code |-> <<"X","3">>], [code |-> <<"X","4">>], [code |-> <<"X","5">>], [code |-> <<"X","6">>], [code |-> <<"X","7">>], [code |-> <<"X","8">>], [code |-> <<"X","9">>], [code |-> <<"X","A">>], [code |-> <<"X","B">>], [code |-> <<"X","C">>], [code |-> <<"X","D">>], [code |-> <<"X","E">>], [code |-> <<"X","F">>], [code |-> <<"X","G">>], [code |-> <<"X","H">>], [code |-> <<"X","J">>]>>]>>

manifoldSpectrum ==
    <<[id |-> "manifold_processConnection", part |-> "manifold", validate |-> "none",
       options |-> <<[code |-> <<"P","1">>], [code |-> <<"P","2">>], [code |-> <<"P","3">>]>>],
    [id |-> "manifold_material", part |-> "manifold", validate |-> "none",
       options |-> <<[code |-> <<"M","1">>], [code |-> <<"M","2">>], [code |-> <<"M","3">>], [code |-> <<"M","4">>], [code |-> <<"M","5">>]>>],
    [id |-> "manifold_transmitterConnection", part |-> "manifold", validate |-> "none",
       options |-> <<[code |-> <<"C","1">>], [code |-> <<"C","2">>], [code |-> <<"C","3">>], [code |-> <<"C","4">>]>>],
    [id |-> "manifold_mountingBolts", part |-> "manifold", validate |-> "none",
       options |-> <<[code |-> <<"B","N">>]>>],
    [id |-> "manifold_pressureRating", part |-> "manifold", validate |-> "none",
       options |-> <<[code |-> <<"R","1">>], [code |-> <<"R","2">>], [code |-> <<"R","3">>]>>],
    [id |-> "manifold_sealType", part |-> "manifold", validate |-> "none",
       options |-> <<[code |-> <<"S","1">>], [code |-> <<"S","2">>], [code |-> <<"S","3">>], [code |-> <<"S","4">>], [code |-> <<"S","5">>], [code |-> <<"S","6">>], [code |-> <<"S","7">>], [code |-> <<"S","8">>]>>],
    [id |-> "manifold_temperature", part |-> "manifold", validate |-> "none",
       options |-> <<[code |-> <<"T","1">>], [code |-> <<"T","2">>]>>],
    [id |-> "manifold_plug", part |-> "manifold", validate |-> "none",
       options |-> <<[code |-> <<"D","1">>], [code |-> <<"D","N">>]>>],
    [id |-> "manifold_additional", part |-> "manifold", validate |-> "none",
       options |-> <<[code |-> <<"A","1">>], [code |-> <<"A","2">>], [code |-> <<"A","3">>]>>]>>

Model_RTX2300A ==
  [id |-> "RTX2300A", baseCode |-> <<"R","T","X","2","3","0","0","-","A">>, configuration |->
    <<[id |-> "wettedMaterial", part |-> "required", validate |-> "none",
       options |-> <<[code |-> <<"E">>], [code |-> <<"F">>], [code |-> <<"G">>]>>],
    [id |-> "diaphragmFillFluid", part |-> "required", validate |-> "none",
       options |-> <<[code |-> <<"D">>]>>],
    [id |-> "pressureRange", part |-> "required", validate |-> "none",
       options |-> <<[code |-> <<"A","2">>, min |-> 0, max |-> 40000, minSpan |-> 10000, unit |-> "kPa"],
          [code |-> <<"A","5">>, min |-> 0, max |-> 200000, minSpan |-> 10000, unit |-> "kPa"],
          [code |-> <<"A","7">>, min |-> 0, max |-> 1000, minSpan |-> 10, unit |-> "MPa"],
          [code |-> <<"A","9">>, min |-> 0, max |-> 5000, minSpan |-> 50, unit |-> "MPa"]>>],
    [id |-> "processConnection", part |-> "required", validate |-> "none",
       options |-> <<[code |-> <<"1">>], [code |-> <<"2">>], [code |-> <<"3">>], [code |-> <<"4">>]>>],
    [id |-> "chamberBolts", part |-> "required", validate |-> "none",
       options |-> <<[code |-> <<"0">>]>>]>>
    \o sharedHousingAndExplosionOptions
    \o sharedAdditionalOptions
    \o <<[id |-> "weldNeck", part |-> "additional", validate |-> "validateWeldNeck_AG",
       options |-> <<[code |-> <<"W","1">>], [code |-> <<"W","2">>], [code |-> <<"W","3">>], [code |-> <<"W","4">>], [code |-> <<"W","5">>], [code |-> <<"W","6">>], [code |-> <<"W","7">>], [code |-> <<"W","8">>], [code |-> <<"W","9">>], [code |-> <<"W","A">>], [code |-> <<"W","B">>], [code |-> <<"W","C">>], [code |-> <<"W","N">>]>>]>>
    \o sharedAdditionalOptions2
    \o <<[id |-> "manifold", part |-> "additional", validate |-> "validateManifold_AG",
       options |-> <<[code |-> <<"V","1">>], [code |-> <<"V","2">>], [code |-> <<"V","N">>]>>],
    [id |-> "oRingMaterial", part |-> "additional", validate |-> "none",
       options |-> <<[code |-> <<"X">>]>>]>>
    \o manifoldSpectrum]

Model_RTX2400G ==
  [id |-> "RTX2400G", baseCode |-> <<"R","T","X","2","4","0","0","-","G">>, configuration |->
    <<[id |-> "wettedMaterial", part |-> "required", validate |-> "none",
       options |-> <<[code |-> <<"E">>], [code |-> <<"F">>], [code |-> <<"G">>]>>],
    [id |-> "diaphragmFillFluid", part |-> "required", validate |-> "none",
       options |-> <<[code |-> <<"D">>]>>],
    [id |-> "pressureRange", part |-> "required", validate |-> "none",
       options |-> <<[code |-> <<"G","2">>, min |-> -40000, max |-> 40000, minSpan |-> 800, unit |-> "kPa"],
          [code |-> <<"G","4">>, min |-> -100000, max |-> 200000, minSpan |-> 1000, unit |-> "kPa"],
          [code |-> <<"G","5">>, min |-> -100, max |-> 1000, minSpan |-> 10, unit |-> "MPa"],
          [code |-> <<"G","6">>, min |-> -100, max |-> 5000, minSpan |-> 50, unit |-> "MPa"],
          [code |-> <<"G","7">>, min |-> -100, max |-> 20000, minSpan |-> 200, unit |-> "MPa"],
          [code |-> <<"G","8">>, min |-> -100, max |-> 40000, minSpan |-> 400, unit |-> "MPa"],
          [code |-> <<"G","9">>, min |-> -100, max |-> 70000, minSpan |-> 700, unit |-> "MPa"]>>],
    [id |-> "processConnection", part |-> "required", validate |-> "none",
       options |-> <<[code |-> <<"1">>], [code |-> <<"2">>], [code |-> <<"3">>], [code |-> <<"4">>]>>],
    [id |-> "chamberBolts", part |-> "required", validate |-> "none",
       options |-> <<[code |-> <<"0">>]>>]>>
    \o sharedHousingAndExplosionOptions
    \o sharedAdditionalOptions
    \o <<[id |-> "weldNeck", part |-> "additional", validate |-> "validateWeldNeck_AG",
       options |-> <<[code |-> <<"W","1">>], [code |-> <<"W","2">>], [code |-> <<"W","3">>], [code |-> <<"W","4">>], [code |-> <<"W","5">>], [code |-> <<"W","6">>], [code |-> <<"W","7">>], [code |-> <<"W","8">>], [code |-> <<"W","9">>], [code |-> <<"W","A">>], [code |-> <<"W","B">>], [code |-> <<"W","C">>], [code |-> <<"W","N">>]>>]>>
    \o sharedAdditionalOptions2
    \o <<[id |-> "manifold", part |-> "additional", validate |-> "validateManifold_AG",
       options |-> <<[code |-> <<"V","1">>], [code |-> <<"V","2">>], [code |-> <<"V","N">>]>>],
    [id |-> "oRingMaterial", part |-> "additional", validate |-> "none",
       options |-> <<[code |-> <<"X">>]>>]>>
    \o manifoldSpectrum]

Model_RTX2400K ==
  [id |-> "RTX2400K", baseCode |-> <<"R","T","X","2","4","0","0","-","K">>, configuration |->
    <<[id |-> "wettedMaterial", part |-> "required", validate |-> "none",
       options |-> <<[code |-> <<"A">>], [code |-> <<"B">>]>>],
    [id |-> "diaphragmFillFluid", part |-> "required", validate |-> "none",
       options |-> <<[code |-> <<"D">>]>>],
    [id |-> "pressureRange", part |-> "required", validate |-> "none",
       options |-> <<[code |-> <<"G","2">>, min |-> -40000, max |-> 40000, minSpan |-> 800, unit |-> "kPa"],
          [code |-> <<"G","4">>, min |-> -100000, max |-> 200000, minSpan |-> 1000, unit |-> "kPa"],
          [code |-> <<"G","5">>, min |-> -100, max |-> 1000, minSpan |-> 10, unit |-> "MPa"],
          [code |-> <<"G","6">>, min |-> -100, max |-> 5000, minSpan |-> 50, unit |-> "MPa"]>>],
    [id |-> "processConnection", part |-> "required", validate |-> "none",
       options |-> <<[code |-> <<"5">>], [code |-> <<"6">>]>>],
    [id |-> "chamberBolts", part |-> "required", validate |-> "none",
       options |-> <<[code |-> <<"1">>], [code |-> <<"2">>], [code |-> <<"3">>]>>]>>
    \o sharedHousingAndExplosionOptions
    \o sharedAdditionalOptions
    \o <<[id |-> "weldNeck", part |-> "additional", validate |-> "validateWeldNeck_KD",
       options |-> <<[code |-> <<"W","N">>]>>]>>
    \o sharedAdditionalOptions2
    \o <<[id |-> "manifold", part |-> "additional", validate |-> "validateManifold_K",
       options |-> <<[code |-> <<"V","1">>], [code |-> <<"V","2">>], [code |-> <<"V","N">>]>>],
    [id |-> "oRingMaterial", part |-> "additional", validate |-> "none",
       options |-> <<[code |-> <<"Z">>], [code |-> <<"Y">>]>>]>>
    \o manifoldSpectrum]

Model_RTX2500D ==
  [id |-> "RTX2500D", baseCode |-> <<"R","T","X","2","5","0","0","-","D">>, configuration |->
    <<[id |-> "wettedMaterial", part |-> "required", validate |-> "none",
       options |-> <<[code |-> <<"A">>], [code |-> <<"B">>]>>],
    [id |-> "diaphragmFillFluid", part |-> "required", validate |-> "none",
       options |-> <<[code |-> <<"D">>]>>],
    [id |-> "pressureRange", part |-> "required", validate |-> "none",
       options |-> <<[code |-> <<"B","0">>, min |-> -2000, max |-> 2000, minSpan |-> 100, unit |-> "kPa"],
          [code |-> <<"D","0">>, min |-> -2000, max |-> 2000, minSpan |-> 100, unit |-> "kPa"],
          [code |-> <<"D","1">>, min |-> -10000, max |-> 10000, minSpan |-> 500, unit |-> "kPa"],
          [code |-> <<"D","3">>, min |-> -100000, max |-> 100000, minSpan |-> 1000, unit |-> "kPa"],
          [code |-> <<"D","5">>, min |-> -500, max |-> 1000, minSpan |-> 10, unit |-> "MPa"],
          [code |-> <<"D","6">>, min |-> -500, max |-> 5000, minSpan |-> 50, unit |-> "MPa"],
          [code |-> <<"D","7">>, min |-> -500, max |-> 14000, minSpan |-> 140, unit |-> "MPa"]>>],
    [id |-> "processConnection", part |-> "required", validate |-> "none",
       options |-> <<[code |-> <<"5">>], [code |-> <<"6">>]>>],
    [id |-> "chamberBolts", part |-> "required", validate |-> "none",
       options |-> <<[code |-> <<"1">>], [code |-> <<"2">>], [code |-> <<"3">>]>>]>>
    \o sharedHousingAndExplosionOptions
    \o sharedAdditionalOptions
    \o <<[id |-> "weldNeck", part |-> "additional", validate |-> "validateWeldNeck_KD",
       options |-> <<[code |-> <<"W","N">>]>>]>>
    \o sharedAdditionalOptions2
    \o <<[id |-> "manifold", part |-> "additional", validate |-> "validateManifold_D",
       options |-> <<[code |-> <<"V","3">>], [code |-> <<"V","4">>], [code |-> <<"V","5">>], [code |-> <<"V","6">>], [code |-> <<"V","N">>]>>],
    [id |-> "oRingMaterial", part |-> "additional", validate |-> "none",
       options |-> <<[code |-> <<"Z">>], [code |-> <<"Y">>]>>]>>
    \o manifoldSpectrum]

productModels == <<Model_RTX2300A, Model_RTX2400G, Model_RTX2400K, Model_RTX2500D>>

baseProductModels == productModels

Range(s) == {s[i] : i \in DOMAIN s}

ModelIds == {m.id : m \in Range(baseProductModels)}

CatIds == UNION {{c.id : c \in Range(m.configuration)} : m \in Range(baseProductModels)}

getModel(modelId) == CHOOSE m \in Range(baseProductModels) : m.id = modelId

getCategory(model, categoryId) ==
    CHOOSE c \in Range(model.configuration) : c.id = categoryId

hasCategory(model, categoryId) ==
    \E c \in Range(model.configuration) : c.id = categoryId

optionCodes(category) == {o.code : o \in Range(category.options)}

(***************************************************************************)
(* Selections (src/types.ts)                                               *)
(***************************************************************************)
Unset == <<>>

EmptySelections == [c \in CatIds |-> Unset]

VN == <<"V","N">>
WN == <<"W","N">>

isSet(sel, categoryId) == sel[categoryId] # Unset

(***************************************************************************)
(* Selection mutator (Configurator.handleSelect)                           *)
(***************************************************************************)
\* model.configuration.forEach(cat => { if (cat.part === 'manifold') delete newSelections[cat.id] })
clearManifoldSpectrum(model, sel) ==
    [c \in CatIds |->
        IF \E cat \in Range(model.configuration) : cat.id = c /\ cat.part = "manifold"
        THEN Unset ELSE sel[c]]

supportsBoth(model) == model.id = "RTX2300A" \/ model.id = "RTX2400G"

\* mutant: a real weld neck does not reset the manifold
applySelection_noManifoldReset(model, sel, categoryId, optionCode) ==
    LET s1 == [sel EXCEPT ![categoryId] = optionCode]
        s2 == IF categoryId = "manifold" /\ optionCode = VN
              THEN clearManifoldSpectrum(model, s1) ELSE s1
        s3 == IF supportsBoth(model) /\ categoryId = "manifold" /\ optionCode # VN
              THEN [s2 EXCEPT !["weldNeck"] = WN] ELSE s2
    IN  s3

\* mutant: 'VN' leaves the manifold spectrum in the map
applySelection_keepsSpectrum(model, sel, categoryId, optionCode) ==
    LET s1 == [sel EXCEPT ![categoryId] = optionCode]
        s3 == IF supportsBoth(model) /\ categoryId = "manifold" /\ optionCode # VN
              THEN [s1 EXCEPT !["weldNeck"] = WN] ELSE s1
        s4 == IF supportsBoth(model) /\ categoryId = "weldNeck" /\ optionCode # WN
              THEN clearManifoldSpectrum(model, [s3 EXCEPT !["manifold"] = VN]) ELSE s3
    IN  s4

\* mutant: a new process connection takes the weld neck out of the map
applySelection_dropsWeldNeck(model, sel, categoryId, optionCode) ==
    LET s1 == [sel EXCEPT ![categoryId] = optionCode]
        s2 == IF categoryId = "manifold" /\ optionCode = VN
              THEN clearManifoldSpectrum(model, s1) ELSE s1
        s3 == IF supportsBoth(model) /\ categoryId = "manifold" /\ optionCode # VN
              THEN [s2 EXCEPT !["weldNeck"] = WN] ELSE s2
        s4 == IF supportsBoth(model) /\ categoryId = "weldNeck" /\ optionCode # WN
              THEN clearManifoldSpectrum(model, [s3 EXCEPT !["manifold"] = VN]) ELSE s3
        s5 == IF categoryId = "processConnection" THEN [s4 EXCEPT !["weldNeck"] = Unset] ELSE s4
    IN  s5

applySelection(model, sel, categoryId, optionCode) ==
    LET s1 == [sel EXCEPT ![categoryId] = optionCode]
        s2 == IF categoryId = "manifold" /\ optionCode = VN
              THEN clearManifoldSpectrum(model, s1) ELSE s1
        s3 == IF supportsBoth(model) /\ categoryId = "manifold" /\ optionCode # VN
              THEN [s2 EXCEPT !["weldNeck"] = WN] ELSE s2
        s4 == IF supportsBoth(model) /\ categoryId = "weldNeck" /\ optionCode # WN
              THEN clearManifoldSpectrum(model, [s3 EXCEPT !["manifold"] = VN]) ELSE s3
    IN  s4

(***************************************************************************)
(* Validators (src/data/productData.ts)                                    *)
(***************************************************************************)
Valid == [isValid |-> TRUE, reason |-> "none"]
Invalid(reason) == [isValid |-> FALSE, reason |-> reason]

\* mutant: an NPT connector is not held to the NPT housing
validateElectricalConnector_anyHousingForNPT(optionCode, sel) ==
    LET explosionProof == sel["explosionProof"]
        housingType == sel["housingType"]
        isM20Connector == optionCode \in {<<"E","1">>, <<"E","2">>, <<"E","3">>, <<"E","4">>, <<"E","5">>}
    IN  IF housingType = Unset THEN Invalid("validation_selectHousing")
        ELSE IF isM20Connector /\ housingType # <<"2">> THEN Invalid("validation_requiresM20")
        ELSE IF /\ explosionProof # Unset
                /\ explosionProof \in {<<"D","-">>, <<"E","-">>, <<"F","-">>}
                /\ optionCode \in {<<"E","1">>, <<"E","6">>, <<"E","4">>, <<"E","5">>, <<"E","9">>, <<"E","A">>}
             THEN Invalid("validation_notForExplosionProof")
        ELSE Valid

\* mutant: 'E9' is missing from the connectors barred under explosion proof
validateElectricalConnector_E9Allowed(optionCode, sel) ==
    LET explosionProof == sel["explosionProof"]
        housingType == sel["housingType"]
        isM20Connector == optionCode \in {<<"E","1">>, <<"E","2">>, <<"E","3">>, <<"E","4">>, <<"E","5">>}
        isNPTConnector == optionCode \in {<<"E","6">>, <<"E","7">>, <<"E","8">>, <<"E","9">>, <<"E","A">>}
    IN  IF housingType = Unset THEN Invalid("validation_selectHousing")
        ELSE IF isM20Connector /\ housingType # <<"2">> THEN Invalid("validation_requiresM20")
        ELSE IF isNPTConnector /\ housingType # <<"1">> THEN Invalid("validation_requiresNPT")
        ELSE IF /\ explosionProof # Unset
                /\ explosionProof \in {<<"D","-">>, <<"E","-">>, <<"F","-">>}
                /\ optionCode \in {<<"E","1">>, <<"E","6">>, <<"E","4">>, <<"E","5">>, <<"E","A">>}
             THEN Invalid("validation_notForExplosionProof")
        ELSE Valid

validateElectricalConnector(optionCode, sel) ==
    LET explosionProof == sel["explosionProof"]
        housingType == sel["housingType"]
        isM20Connector == optionCode \in {<<"E","1">>, <<"E","2">>, <<"E","3">>, <<"E","4">>, <<"E","5">>}
        isNPTConnector == optionCode \in {<<"E","6">>, <<"E","7">>, <<"E","8">>, <<"E","9">>, <<"E","A">>}
    IN  IF housingType = Unset THEN Invalid("validation_selectHousing")
        ELSE IF isM20Connector /\ housingType # <<"2">> THEN Invalid("validation_requiresM20")
        ELSE IF isNPTConnector /\ housingType # <<"1">> THEN Invalid("validation_requiresNPT")
        ELSE IF /\ explosionProof # Unset
                /\ explosionProof \in {<<"D","-">>, <<"E","-">>, <<"F","-">>}
                /\ optionCode \in {<<"E","1">>, <<"E","6">>, <<"E","4">>, <<"E","5">>, <<"E","9">>, <<"E","A">>}
             THEN Invalid("validation_notForExplosionProof")
        ELSE Valid

\* mutant: a manifold also waits for the process connection
validateManifold_AG_needsProcessConnection(optionCode, sel) ==
    IF sel["weldNeck"] # Unset /\ sel["weldNeck"] # WN
    THEN Invalid("validation_noManifoldWithWeldNeck")
    ELSE IF sel["processConnection"] = Unset
    THEN Invalid("validation_selectProcessConnection")
    ELSE IF optionCode \notin {<<"V","1">>, <<"V","2">>, VN}
    THEN Invalid("validation_only2ValveManifold")
    ELSE Valid

validateManifold_AG(optionCode, sel) ==
    IF sel["weldNeck"] # Unset /\ sel["weldNeck"] # WN
    THEN Invalid("validation_noManifoldWithWeldNeck")
    ELSE IF optionCode \notin {<<"V","1">>, <<"V","2">>, VN}
    THEN Invalid("validation_only2ValveManifold")
    ELSE Valid

\* mutant: process connection '4' is not counted as male
validateWeldNeck_AG_fourNotMale(optionCode, sel) ==
    LET processConnection == sel["processConnection"]
        isTransmitterFemale == processConnection = <<"1">>
        isTransmitterMale == processConnection \in {<<"2">>, <<"3">>}
        isWeldNeckMale == optionCode \in {<<"W","1">>, <<"W","2">>, <<"W","3">>}
        isWeldNeckFemale == optionCode \in {<<"W","4">>, <<"W","5">>, <<"W","6">>, <<"W","7">>, <<"W","8">>,
                                            <<"W","9">>, <<"W","A">>, <<"W","B">>, <<"W","C">>}
    IN  IF optionCode = WN THEN Valid
        ELSE IF sel["manifold"] # Unset /\ sel["manifold"] # VN
        THEN Invalid("validation_noWeldNeckWithManifold")
        ELSE IF processConnection = Unset THEN Invalid("validation_selectProcessConnection")
        ELSE IF isTransmitterFemale /\ isWeldNeckMale THEN Valid
        ELSE IF isTransmitterMale /\ isWeldNeckFemale THEN Valid
        ELSE IF isTransmitterFemale THEN Invalid("validation_requiresMaleWeldNeck")
        ELSE IF isTransmitterMale THEN Invalid("validation_requiresFemaleWeldNeck")
        ELSE Invalid("validation_incompatibleProcessConnection")

validateWeldNeck_AG(optionCode, sel) ==
    LET processConnection == sel["processConnection"]
        isTransmitterFemale == processConnection = <<"1">>
        isTransmitterMale == processConnection \in {<<"2">>, <<"3">>, <<"4">>}
        isWeldNeckMale == optionCode \in {<<"W","1">>, <<"W","2">>, <<"W","3">>}
        isWeldNeckFemale == optionCode \in {<<"W","4">>, <<"W","5">>, <<"W","6">>, <<"W","7">>, <<"W","8">>,
                                            <<"W","9">>, <<"W","A">>, <<"W","B">>, <<"W","C">>}
    IN  IF optionCode = WN THEN Valid
        ELSE IF sel["manifold"] # Unset /\ sel["manifold"] # VN
        THEN Invalid("validation_noWeldNeckWithManifold")
        ELSE IF processConnection = Unset THEN Invalid("validation_selectProcessConnection")
        ELSE IF isTransmitterFemale /\ isWeldNeckMale THEN Valid
        ELSE IF isTransmitterMale /\ isWeldNeckFemale THEN Valid
        ELSE IF isTransmitterFemale THEN Invalid("validation_requiresMaleWeldNeck")
        ELSE IF isTransmitterMale THEN Invalid("validation_requiresFemaleWeldNeck")
        ELSE Invalid("validation_incompatibleProcessConnection")

\* mutant: the weld neck is not looked at
validateManifold_K_ignoresWeldNeck(optionCode, sel) ==
    IF optionCode \notin {<<"V","1">>, <<"V","2">>, VN}
    THEN Invalid("validation_only2ValveManifold")
    ELSE Valid

validateManifold_K(optionCode, sel) ==
    IF sel["weldNeck"] # Unset /\ sel["weldNeck"] # WN
    THEN Invalid("validation_noManifoldWithWeldNeck")
    ELSE IF optionCode \notin {<<"V","1">>, <<"V","2">>, VN}
    THEN Invalid("validation_only2ValveManifold")
    ELSE Valid

validateManifold_D(optionCode, sel) ==
    IF sel["weldNeck"] # Unset /\ sel["weldNeck"] # WN
    THEN Invalid("validation_noManifoldWithWeldNeck")
    ELSE IF optionCode \notin {<<"V","3">>, <<"V","4">>, <<"V","5">>, <<"V","6">>, VN}
    THEN Invalid("validation_only35ValveManifold")
    ELSE Valid

validateWeldNeck_KD(optionCode, sel) ==
    IF optionCode # WN THEN Invalid("validation_noWeldNeckApplicable") ELSE Valid

\* category.validate ? category.validate(option.code, allSelections, t) : { isValid: true }
validate(category, optionCode, sel) ==
    CASE category.validate = "validateElectricalConnector" -> validateElectricalConnector(optionCode, sel)
      [] category.validate = "validateManifold_AG" -> validateManifold_AG(optionCode, sel)
      [] category.validate = "validateWeldNeck_AG" -> validateWeldNeck_AG(optionCode, sel)
      [] category.validate = "validateManifold_K" -> validateManifold_K(optionCode, sel)
      [] category.validate = "validateManifold_D" -> validateManifold_D(optionCode, sel)
      [] category.validate = "validateWeldNeck_KD" -> validateWeldNeck_KD(optionCode, sel)
      [] OTHER -> Valid

(***************************************************************************)
(* Text helpers (String.prototype.startsWith / substring / replace)        *)
(***************************************************************************)
startsWith(s, p) == Len(p) <= Len(s) /\ SubSeq(s, 1, Len(p)) = p

substring(s, n) == SubSeq(s, n + 1, Len(s))

LowerCase == <<"a","b","c","d","e","f","g","h","i","j","k","l","m",
               "n","o","p","q","r","s","t","u","v","w","x","y","z">>
UpperCase == <<"A","B","C","D","E","F","G","H","I","J","K","L","M",
               "N","O","P","Q","R","S","T","U","V","W","X","Y","Z">>

toUpperCaseChar(ch) ==
    IF \E i \in DOMAIN LowerCase : LowerCase[i] = ch
    THEN UpperCase[CHOOSE i \in DOMAIN LowerCase : LowerCase[i] = ch]
    ELSE ch

toUpperCase(s) == [i \in 1..Len(s) |-> toUpperCaseChar(s[i])]

\* the characters written "endash" / "emdash" stand for U+2013 / U+2014
normalizeDashes(s) == [i \in 1..Len(s) |-> IF s[i] \in {"endash", "emdash"} THEN "-" ELSE s[i]]

Whitespace == {" ", "tab", "newline"}

removeWhitespace(s) == SelectSeq(s, LAMBDA ch : ch \notin Whitespace)

removeHyphens(s) == SelectSeq(s, LAMBDA ch : ch # "-")

RECURSIVE stripLeadingHyphens(_)
stripLeadingHyphens(s) ==
    IF Len(s) > 0 /\ s[1] = "-" THEN stripLeadingHyphens(Tail(s)) ELSE s

\* s.split('-')[0]
RECURSIVE beforeFirstHyphen(_)
beforeFirstHyphen(s) ==
    IF Len(s) = 0 \/ s[1] = "-" THEN <<>>
    ELSE <<s[1]>> \o beforeFirstHyphen(Tail(s))

cleanCode(raw) == removeWhitespace(normalizeDashes(toUpperCase(raw)))

(***************************************************************************)
(* Codec - encode (Summary.generateTransmitterModelNumber)                 *)
(***************************************************************************)
RECURSIVE joinCodes(_, _, _, _)
joinCodes(model, sel, part, i) ==
    IF i > Len(model.configuration) THEN <<>>
    ELSE (IF model.configuration[i].part = part
          THEN sel[model.configuration[i].id] ELSE <<>>)
         \o joinCodes(model, sel, part, i + 1)

line1(model, sel) == model.baseCode \o joinCodes(model, sel, "required", 1)

\* mutant: the manifold spectrum is appended to the second line
line2_withManifoldParts(model, sel) ==
    joinCodes(model, sel, "additional", 1) \o joinCodes(model, sel, "manifold", 1)

line2(model, sel) == joinCodes(model, sel, "additional", 1)

(***************************************************************************)
(* Manifold code (Summary.generateManifoldModelNumber)                     *)
(***************************************************************************)
\* mutant: the five-valve manifolds take the three-valve tag
getManifoldTypeCode_fiveValveAsThree(selectionCode) ==
    IF selectionCode = <<>> THEN <<>>
    ELSE IF selectionCode \in {<<"V","1">>, <<"V","2">>} THEN <<"V","2">>
    ELSE IF selectionCode \in {<<"V","3">>, <<"V","4">>, <<"V","5">>, <<"V","6">>} THEN <<"V","3">>
    ELSE <<>>

getManifoldTypeCode(selectionCode) ==
    IF selectionCode = <<>> THEN <<>>
    ELSE IF selectionCode \in {<<"V","1">>, <<"V","2">>} THEN <<"V","2">>
    ELSE IF selectionCode \in {<<"V","3">>, <<"V","4">>} THEN <<"V","3">>
    ELSE IF selectionCode \in {<<"V","5">>, <<"V","6">>} THEN <<"V","5">>
    ELSE <<>>

orderedManifoldPartIds ==
    <<"manifold_processConnection", "manifold_material", "manifold_transmitterConnection",
      "manifold_mountingBolts", "manifold_pressureRating", "manifold_sealType",
      "manifold_temperature", "manifold_plug", "manifold_additional">>

RECURSIVE joinIds(_, _, _)
joinIds(ids, sel, i) ==
    IF i > Len(ids) THEN <<>> ELSE sel[ids[i]] \o joinIds(ids, sel, i + 1)

ManifoldPrefix == <<"S","S","2","0","0","0","-">>

generateManifoldModelNumber(model, sel) ==
    IF sel["manifold"] = <<>> \/ sel["manifold"] = <<"V","N">>
    THEN [isNull |-> TRUE, text |-> <<>>]
    ELSE [isNull |-> FALSE,
          text |-> ManifoldPrefix \o getManifoldTypeCode(sel["manifold"])
                       \o joinIds(orderedManifoldPartIds, sel, 1)]

(***************************************************************************)
(* Codec - decode (App.handleApplyFullCode)                                *)
(***************************************************************************)
\* Map.prototype.set: an existing key keeps its position and takes the new value
mapSet(entries, key, modelId) ==
    IF \E i \in DOMAIN entries : entries[i].key = key
    THEN [i \in DOMAIN entries |->
            IF entries[i].key = key THEN [key |-> key, model |-> modelId] ELSE entries[i]]
    ELSE Append(entries, [key |-> key, model |-> modelId])

mapHas(entries, key) == \E i \in DOMAIN entries : entries[i].key = key

\* mutant: every bare model number is taken as a prefix
isUniqueModelNumber_always(modelNumber) == TRUE

isUniqueModelNumber(modelNumber) ==
    Cardinality({i \in DOMAIN baseProductModels :
        startsWith(toUpperCase(baseProductModels[i].baseCode), modelNumber)}) = 1

RECURSIVE buildPrefixes(_)
buildPrefixes(k) ==
    IF k = 0 THEN <<>>
    ELSE LET model == baseProductModels[k]
             baseCodeWithHyphen == toUpperCase(model.baseCode)
             baseCodeWithoutHyphen == removeHyphens(baseCodeWithHyphen)
             modelNumber == beforeFirstHyphen(baseCodeWithHyphen)
             p1 == mapSet(buildPrefixes(k - 1), baseCodeWithHyphen, model.id)
             p2 == mapSet(p1, baseCodeWithoutHyphen, model.id)
         IN  IF isUniqueModelNumber(modelNumber) /\ ~mapHas(p2, modelNumber)
             THEN mapSet(p2, modelNumber, model.id)
             ELSE p2

prefixes == buildPrefixes(Len(baseProductModels))

\* Array.prototype.sort((a, b) => b.length - a.length) is stable: the entries
\* of each length keep their relative order, longer lengths first.
RECURSIVE sortPrefixesFrom(_, _)
sortPrefixesFrom(entries, n) ==
    IF n = 0 THEN <<>>
    ELSE SelectSeq(entries, LAMBDA e : Len(e.key) = n) \o sortPrefixesFrom(entries, n - 1)

maxKeyLength(entries) ==
    IF entries = <<>> THEN 0
    ELSE CHOOSE n \in {Len(e.key) : e \in Range(entries)} :
            \A e \in Range(entries) : Len(e.key) <= n

sortedPrefixes == sortPrefixesFrom(prefixes, maxKeyLength(prefixes))

NoModel == [found |-> FALSE]

RECURSIVE scanPrefixes(_, _, _)
scanPrefixes(entries, code, i) ==
    IF i > Len(entries) THEN NoModel
    ELSE IF startsWith(code, entries[i].key)
    THEN [found |-> TRUE, model |-> entries[i].model, prefixLength |-> Len(entries[i].key)]
    ELSE scanPrefixes(entries, code, i + 1)

\* "for (const [prefix, model] of sortedPrefixes)"
matchModel(code) == scanPrefixes(sortedPrefixes, code, 1)

partCategories(model, parts) == SelectSeq(model.configuration, LAMBDA c : c.part \in parts)

NoMatch == [found |-> FALSE, optionCode |-> <<>>, matchedLength |-> 0]

\* mutant: a lenient match stores the text that was matched, not the option code
bestMatchStep_storesMatchedText(bestMatch, option, codeRemainder) ==
    LET exact ==
            IF /\ startsWith(codeRemainder, option.code)
               /\ (~bestMatch.found \/ Len(option.code) > bestMatch.matchedLength)
            THEN [found |-> TRUE, optionCode |-> option.code, matchedLength |-> Len(option.code)]
            ELSE bestMatch
        codeWithoutHyphen == SubSeq(option.code, 1, Len(option.code) - 1)
    IN  IF /\ Len(option.code) > 1
           /\ option.code[Len(option.code)] = "-"
           /\ startsWith(codeRemainder, codeWithoutHyphen)
           /\ (~exact.found \/ Len(codeWithoutHyphen) > exact.matchedLength)
        THEN [found |-> TRUE, optionCode |-> codeWithoutHyphen, matchedLength |-> Len(codeWithoutHyphen)]
        ELSE exact

\* mutant: a lenient match replaces a longer exact match
bestMatchStep_shorterLenientWins(bestMatch, option, codeRemainder) ==
    LET exact ==
            IF /\ startsWith(codeRemainder, option.code)
               /\ (~bestMatch.found \/ Len(option.code) > bestMatch.matchedLength)
            THEN [found |-> TRUE, optionCode |-> option.code, matchedLength |-> Len(option.code)]
            ELSE bestMatch
        codeWithoutHyphen == SubSeq(option.code, 1, Len(option.code) - 1)
    IN  IF /\ Len(option.code) > 1
           /\ option.code[Len(option.code)] = "-"
           /\ startsWith(codeRemainder, codeWithoutHyphen)
           /\ (~exact.found \/ Len(codeWithoutHyphen) < exact.matchedLength)
        THEN [found |-> TRUE, optionCode |-> option.code, matchedLength |-> Len(codeWithoutHyphen)]
        ELSE exact

\* one iteration of "for (const option of category.options)"
bestMatchStep(bestMatch, option, codeRemainder) ==
    LET exact ==
            IF /\ startsWith(codeRemainder, option.code)
               /\ (~bestMatch.found \/ Len(option.code) > bestMatch.matchedLength)
            THEN [found |-> TRUE, optionCode |-> option.code, matchedLength |-> Len(option.code)]
            ELSE bestMatch
        codeWithoutHyphen == SubSeq(option.code, 1, Len(option.code) - 1)
    IN  IF /\ Len(option.code) > 1
           /\ option.code[Len(option.code)] = "-"
           /\ startsWith(codeRemainder, codeWithoutHyphen)
           /\ (~exact.found \/ Len(codeWithoutHyphen) > exact.matchedLength)
        THEN [found |-> TRUE, optionCode |-> option.code, matchedLength |-> Len(codeWithoutHyphen)]
        ELSE exact

RECURSIVE findBestMatch(_, _, _, _)
findBestMatch(options, j, codeRemainder, bestMatch) ==
    IF j > Len(options) THEN bestMatch
    ELSE findBestMatch(options, j + 1, codeRemainder,
                       bestMatchStep(bestMatch, options[j], codeRemainder))

\* mutant: a category without a match is skipped and the loop goes on
RECURSIVE requiredLoop_skipsMiss(_, _, _)
requiredLoop_skipsMiss(categories, i, d) ==
    IF i > Len(categories) THEN d
    ELSE LET category == categories[i]
             bestMatch == findBestMatch(category.options, 1, d.codeRemainder, NoMatch)
         IN  IF bestMatch.found
             THEN requiredLoop_skipsMiss(categories, i + 1,
                    [newSelections |-> [d.newSelections EXCEPT ![category.id] = bestMatch.optionCode],
                     codeRemainder |-> substring(d.codeRemainder, bestMatch.matchedLength),
                     steps |-> Append(d.steps,
                        [pass |-> "required", categoryId |-> category.id,
                         optionCode |-> bestMatch.optionCode,
                         matchedLength |-> bestMatch.matchedLength,
                         remainder |-> d.codeRemainder])])
             ELSE requiredLoop_skipsMiss(categories, i + 1, d)

\* "for (const category of requiredCategories)"; d carries newSelections,
\* codeRemainder and the log of the steps taken
RECURSIVE requiredLoop(_, _, _)
requiredLoop(categories, i, d) ==
    IF i > Len(categories) THEN d
    ELSE LET category == categories[i]
             bestMatch == findBestMatch(category.options, 1, d.codeRemainder, NoMatch)
         IN  IF bestMatch.found
             THEN requiredLoop(categories, i + 1,
                    [newSelections |-> [d.newSelections EXCEPT ![category.id] = bestMatch.optionCode],
                     codeRemainder |-> substring(d.codeRemainder, bestMatch.matchedLength),
                     steps |-> Append(d.steps,
                        [pass |-> "required", categoryId |-> category.id,
                         optionCode |-> bestMatch.optionCode,
                         matchedLength |-> bestMatch.matchedLength,
                         remainder |-> d.codeRemainder])])
             ELSE d

\* additionalCategories.flatMap(cat => cat.options.map(opt => ({...opt, categoryId: cat.id})))
RECURSIVE flatMapOptions(_, _)
flatMapOptions(categories, i) ==
    IF i > Len(categories) THEN <<>>
    ELSE [j \in 1..Len(categories[i].options) |->
            [code |-> categories[i].options[j].code, categoryId |-> categories[i].id]]
         \o flatMapOptions(categories, i + 1)

\* mutant: the options are scanned shortest code first
RECURSIVE sortOptionsFrom_shortestFirst(_, _)
sortOptionsFrom_shortestFirst(options, n) ==
    IF n = 0 THEN <<>>
    ELSE sortOptionsFrom_shortestFirst(options, n - 1) \o SelectSeq(options, LAMBDA o : Len(o.code) = n)

\* allAdditionalOptions.sort((a, b) => b.code.length - a.code.length), stable
RECURSIVE sortOptionsFrom(_, _)
sortOptionsFrom(options, n) ==
    IF n = 0 THEN <<>>
    ELSE SelectSeq(options, LAMBDA o : Len(o.code) = n) \o sortOptionsFrom(options, n - 1)

\* mutant: only the codes of one character are kept in the scan list
maxCodeLength_one(options) == 1

maxCodeLength(options) ==
    IF options = <<>> THEN 0
    ELSE CHOOSE n \in {Len(o.code) : o \in Range(options)} :
            \A o \in Range(options) : Len(o.code) <= n

sortedAdditionalOptions(model) ==
    LET unsorted == flatMapOptions(partCategories(model, {"additional", "manifold"}), 1)
    IN  sortOptionsFrom(unsorted, maxCodeLength(unsorted))

\* the sorted list depends on the model only: computed once per model
allAdditionalOptions == [modelId \in ModelIds |-> sortedAdditionalOptions(getModel(modelId))]

requiredCategories == [modelId \in ModelIds |-> partCategories(getModel(modelId), {"required"})]

\* mutant: a filled category is matched again
RECURSIVE scanOptions_ignoresFilled(_, _, _, _)
scanOptions_ignoresFilled(options, i, newSelections, tempAdditionalCode) ==
    IF i > Len(options) THEN 0
    ELSE IF startsWith(tempAdditionalCode, options[i].code)
    THEN i
    ELSE scanOptions_ignoresFilled(options, i + 1, newSelections, tempAdditionalCode)

\* "for (const option of allAdditionalOptions)": index of the first hit, 0 if none
RECURSIVE scanOptions(_, _, _, _)
scanOptions(options, i, newSelections, tempAdditionalCode) ==
    IF i > Len(options) THEN 0
    ELSE IF /\ newSelections[options[i].categoryId] = Unset
            /\ startsWith(tempAdditionalCode, options[i].code)
    THEN i
    ELSE scanOptions(options, i + 1, newSelections, tempAdditionalCode)

\* "while (tempAdditionalCode.length > 0)"
RECURSIVE additionalLoop(_, _)
additionalLoop(options, d) ==
    IF Len(d.codeRemainder) = 0 THEN d
    ELSE LET hit == scanOptions(options, 1, d.newSelections, d.codeRemainder)
         IN  IF hit = 0 THEN d
             ELSE additionalLoop(options,
                    [newSelections |-> [d.newSelections EXCEPT ![options[hit].categoryId] = options[hit].code],
                     codeRemainder |-> substring(d.codeRemainder, Len(options[hit].code)),
                     steps |-> Append(d.steps,
                        [pass |-> "additional", categoryId |-> options[hit].categoryId,
                         optionCode |-> options[hit].code,
                         matchedLength |-> Len(options[hit].code),
                         remainder |-> d.codeRemainder])])

decodeOptions(matchedModel, code, prefixLength) ==
    LET codeForOptions == stripLeadingHyphens(substring(code, prefixLength))
        afterRequired == requiredLoop(requiredCategories[matchedModel.id], 1,
                            [newSelections |-> EmptySelections,
                             codeRemainder |-> codeForOptions,
                             steps |-> <<>>])
    IN  additionalLoop(allAdditionalOptions[matchedModel.id], afterRequired)

\* the state written once the model is known: setSelections(newSelections)
applied(matchedInfo, d) ==
    [status |-> "applied", model |-> matchedInfo.model,
     prefixLength |-> matchedInfo.prefixLength,
     newSelections |-> d.newSelections,
     codeRemainder |-> d.codeRemainder, steps |-> d.steps]

\* "if (!matchedModel) { alert(...); return; }"
decodeMatched(code, matchedInfo) ==
    IF ~matchedInfo.found THEN [status |-> "alert_modelNotFound"]
    ELSE applied(matchedInfo,
                 decodeOptions(getModel(matchedInfo.model), code, matchedInfo.prefixLength))

\* "if (!code) return;"
decodeClean(code) ==
    IF code = <<>> THEN [status |-> "empty"] ELSE decodeMatched(code, matchModel(code))

\* the outcome of handleApplyFullCode on the text of the input field
decode(fullCode) == decodeClean(cleanCode(fullCode))

(***************************************************************************)
(* Numbers: parseFloat on the text of a range field.  The value is kept    *)
(* in thousandths (three fractional digits); a ratio is kept as the pair   *)
(* of its numerator and denominator.                                       *)
(***************************************************************************)
Digits == <<"0","1","2","3","4","5","6","7","8","9">>

isDigit(ch) == \E i \in DOMAIN Digits : Digits[i] = ch

digitValue(ch) == (CHOOSE i \in DOMAIN Digits : Digits[i] = ch) - 1

RECURSIVE takeDigits(_)
takeDigits(s) ==
    IF Len(s) > 0 /\ isDigit(s[1]) THEN <<s[1]>> \o takeDigits(Tail(s)) ELSE <<>>

RECURSIVE digitsValue(_)
digitsValue(ds) ==
    IF Len(ds) = 0 THEN 0
    ELSE 10 * digitsValue(SubSeq(ds, 1, Len(ds) - 1)) + digitValue(ds[Len(ds)])

\* the first three fractional digits, in thousandths
fractionValue(ds) ==
    (IF Len(ds) >= 1 THEN 100 * digitValue(ds[1]) ELSE 0)
    + (IF Len(ds) >= 2 THEN 10 * digitValue(ds[2]) ELSE 0)
    + (IF Len(ds) >= 3 THEN digitValue(ds[3]) ELSE 0)

RECURSIVE trimStart(_)
trimStart(s) ==
    IF Len(s) > 0 /\ s[1] \in Whitespace THEN trimStart(Tail(s)) ELSE s

NaN == [nan |-> TRUE, value |-> 0]

parseFloat(text) ==
    LET t == trimStart(text)
        negative == Len(t) > 0 /\ t[1] = "-"
        unsigned == IF Len(t) > 0 /\ t[1] \in {"-", "+"} THEN Tail(t) ELSE t
        intDigits == takeDigits(unsigned)
        rest == substring(unsigned, Len(intDigits))
        fracDigits == IF Len(rest) > 0 /\ rest[1] = "." THEN takeDigits(Tail(rest)) ELSE <<>>
        magnitude == 1000 * digitsValue(intDigits) + fractionValue(fracDigits)
    IN  IF Len(intDigits) = 0 /\ Len(fracDigits) = 0 THEN NaN
        ELSE [nan |-> FALSE, value |-> IF negative THEN 0 - magnitude ELSE magnitude]

(***************************************************************************)
(* Performance data (src/data/productData.ts)                              *)
(***************************************************************************)
\* one piece "r <= bound ? ..." / "r < bound ? ..." of an accuracy function:
\* value = (c0 + c1 * r) / 10000 (percent of span)
Piece(strict, bound, c0, c1) == [strict |-> strict, bound |-> bound, c0 |-> c0, c1 |-> c1]

Flat4 == [pieces |-> <<Piece(FALSE, 4, 400, 0)>>, maxRatio |-> 4]
Std20 == [pieces |-> <<Piece(FALSE, 10, 400, 0), Piece(TRUE, 20, 40, 36)>>, maxRatio |-> 20]
Std100 == [pieces |-> <<Piece(FALSE, 10, 400, 0), Piece(TRUE, 100, 40, 36)>>, maxRatio |-> 100]
Low50 == [pieces |-> <<Piece(FALSE, 5, 400, 0), Piece(TRUE, 50, 40, 72)>>, maxRatio |-> 50]
Draft20 == [pieces |-> <<Piece(FALSE, 20, 500, 150)>>, maxRatio |-> 20]
Draft20b == [pieces |-> <<Piece(FALSE, 20, 130, 270)>>, maxRatio |-> 20]

accuracyFunctions ==
    [
      RTX2300A |-> <<[code |-> <<"A","2">>, info |-> Flat4],
                    [code |-> <<"A","5">>, info |-> Std20],
                    [code |-> <<"A","7">>, info |-> Std100],
                    [code |-> <<"A","9">>, info |-> Std100]>>,
      RTX2400G |-> <<[code |-> <<"G","2">>, info |-> Low50],
                    [code |-> <<"G","4">>, info |-> Std100],
                    [code |-> <<"G","5">>, info |-> Std100],
                    [code |-> <<"G","6">>, info |-> Std100],
                    [code |-> <<"G","7">>, info |-> Std100],
                    [code |-> <<"G","8">>, info |-> Std100],
                    [code |-> <<"G","9">>, info |-> Std100]>>,
      RTX2400K |-> <<[code |-> <<"G","2">>, info |-> Low50],
                    [code |-> <<"G","4">>, info |-> Std100],
                    [code |-> <<"G","5">>, info |-> Std100],
                    [code |-> <<"G","6">>, info |-> Std100]>>,
      RTX2500D |-> <<[code |-> <<"B","0">>, info |-> Draft20],
                    [code |-> <<"D","0">>, info |-> Draft20],
                    [code |-> <<"D","1">>, info |-> Draft20b],
                    [code |-> <<"D","3">>, info |-> Std100],
                    [code |-> <<"D","5">>, info |-> Std100],
                    [code |-> <<"D","6">>, info |-> Std100],
                    [code |-> <<"D","7">>, info |-> Std100]>> ]

NoAccuracy == [pieces |-> <<>>, maxRatio |-> -1]

\* accuracyFunctions[modelId]?.[rangeCode] ?? null (NoAccuracy stands for null)
getAccuracyFunction(modelId, rangeCode) ==
    IF /\ modelId \in DOMAIN accuracyFunctions
       /\ \E e \in Range(accuracyFunctions[modelId]) : e.code = rangeCode
    THEN (CHOOSE e \in Range(accuracyFunctions[modelId]) : e.code = rangeCode).info
    ELSE NoAccuracy

Null == [isNull |-> TRUE]

\* func(r) for r = num / den (den > 0): the first piece whose condition holds
RECURSIVE evalPieces(_, _, _, _)
evalPieces(pieces, i, num, den) ==
    IF i > Len(pieces) THEN Null
    ELSE IF \/ (~pieces[i].strict /\ num <= pieces[i].bound * den)
            \/ (pieces[i].strict /\ num < pieces[i].bound * den)
    THEN [isNull |-> FALSE, num |-> pieces[i].c0 * den + pieces[i].c1 * num, den |-> 10000 * den]
    ELSE evalPieces(pieces, i + 1, num, den)

\* the accuracy entry of calculatePerformanceSpecs(model, selections, ratio, t)
calculatePerformanceSpecs(model, sel, num, den) ==
    LET info == getAccuracyFunction(model.id, sel["pressureRange"])
    IN  [accuracy |-> IF info = NoAccuracy THEN Null ELSE evalPieces(info.pieces, 1, num, den)]

(***************************************************************************)
(* Range checks                                                            *)
(***************************************************************************)
selectedRangeOption(model, sel) ==
    LET rangeCat == getCategory(model, "pressureRange")
        hits == {i \in DOMAIN rangeCat.options : rangeCat.options[i].code = sel["pressureRange"]}
    IN  IF hits = {} THEN Null
        ELSE rangeCat.options[CHOOSE i \in hits : \A j \in hits : i <= j]

\* Summary: rangeError of the custom calibration range
rangeError(model, sel, range) ==
    LET opt == selectedRangeOption(model, sel)
        low == parseFloat(range.low)
        high == parseFloat(range.high)
    IN  IF opt = Null THEN "none"
        ELSE IF range.low = <<>> /\ range.high = <<>> THEN "none"
        ELSE IF range.low # <<>> /\ range.high # <<>> /\ ~low.nan /\ ~high.nan
        THEN (IF low.value >= high.value THEN "rangeError_lowHigh"
              ELSE IF low.value < opt.min \/ high.value > opt.max THEN "rangeError_minMax"
              ELSE "none")
        ELSE IF (range.low # <<>> /\ low.nan) \/ (range.high # <<>> /\ high.nan)
        THEN "rangeError_number"
        ELSE "none"

\* Summary: "selectedRangeOption && customRange.low && customRange.high && !error"
isCustomRangeValidAndSet(model, sel, range) ==
    /\ selectedRangeOption(model, sel) # Null
    /\ range.low # <<>>
    /\ range.high # <<>>
    /\ rangeError(model, sel, range) = "none"

\* line3 of generateTransmitterModelNumber: the placeholder, the option's
\* description, or "{low} ~ {high} {unit}"
transmitterLine3(model, sel, range) ==
    LET opt == selectedRangeOption(model, sel)
    IN  IF opt = Null
        THEN [kind |-> "placeholder", option |-> <<>>, low |-> <<>>, high |-> <<>>, unit |-> ""]
        ELSE IF isCustomRangeValidAndSet(model, sel, range)
        THEN [kind |-> "custom", option |-> opt.code, low |-> range.low, high |-> range.high,
              unit |-> opt.unit]
        ELSE [kind |-> "description", option |-> opt.code, low |-> <<>>, high |-> <<>>, unit |-> ""]

\* mutant: a ratio equal to maxRatio is rejected too
exceedsTurndown_atLimit(accuracyData, maxSpan, calibratedSpan) ==
    accuracyData # NoAccuracy /\ maxSpan >= accuracyData.maxRatio * calibratedSpan

\* "r > maxR" for r = maxSpan / calibratedSpan (calibratedSpan > 0) and
\* maxR = accuracyData?.maxRatio ?? Infinity
exceedsTurndown(accuracyData, maxSpan, calibratedSpan) ==
    accuracyData # NoAccuracy /\ maxSpan > accuracyData.maxRatio * calibratedSpan

\* mutant: the ratio is taken from the upper range limit, not from the span
evaluate_ratioFromMax(model, sel, range) ==
    LET rangeOpt == selectedRangeOption(model, sel)
        low == parseFloat(range.low)
        high == parseFloat(range.high)
        calibratedSpan == high.value - low.value
        minSpan == rangeOpt.minSpan
        maxSpan == rangeOpt.max
        accuracyData == getAccuracyFunction(model.id, sel["pressureRange"])
    IN  IF rangeOpt = Null
        THEN [specs |-> Null, ratio |-> Null, error |-> "Pressure range not selected."]
        ELSE IF range.low = <<>> \/ range.high = <<>> \/ low.nan \/ high.nan
        THEN [specs |-> calculatePerformanceSpecs(model, sel, 1, 1), ratio |-> Null, error |-> "none"]
        ELSE IF low.value >= high.value
        THEN [specs |-> Null, ratio |-> Null, error |-> "rangeError_lowHigh"]
        ELSE IF low.value < rangeOpt.min \/ high.value > rangeOpt.max
        THEN [specs |-> Null, ratio |-> Null, error |-> "rangeError_minMax"]
        ELSE IF calibratedSpan < minSpan
        THEN [specs |-> Null, ratio |-> Null, error |-> "fsTooSmallError"]
        ELSE IF exceedsTurndown(accuracyData, maxSpan, calibratedSpan)
        THEN [specs |-> Null, ratio |-> [isNull |-> FALSE, num |-> maxSpan, den |-> calibratedSpan],
              error |-> "turndownRatioError"]
        ELSE [specs |-> calculatePerformanceSpecs(model, sel, maxSpan, calibratedSpan),
              ratio |-> [isNull |-> FALSE, num |-> maxSpan, den |-> calibratedSpan],
              error |-> "none"]

\* mutant: equal limits pass the first range check
evaluate_equalBoundsPass(model, sel, range) ==
    LET rangeOpt == selectedRangeOption(model, sel)
        low == parseFloat(range.low)
        high == parseFloat(range.high)
        calibratedSpan == high.value - low.value
        minSpan == rangeOpt.minSpan
        maxSpan == rangeOpt.max - rangeOpt.min
        accuracyData == getAccuracyFunction(model.id, sel["pressureRange"])
    IN  IF rangeOpt = Null
        THEN [specs |-> Null, ratio |-> Null, error |-> "Pressure range not selected."]
        ELSE IF range.low = <<>> \/ range.high = <<>> \/ low.nan \/ high.nan
        THEN [specs |-> calculatePerformanceSpecs(model, sel, 1, 1), ratio |-> Null, error |-> "none"]
        ELSE IF low.value > high.value
        THEN [specs |-> Null, ratio |-> Null, error |-> "rangeError_lowHigh"]
        ELSE IF low.value < rangeOpt.min \/ high.value > rangeOpt.max
        THEN [specs |-> Null, ratio |-> Null, error |-> "rangeError_minMax"]
        ELSE IF calibratedSpan < minSpan
        THEN [specs |-> Null, ratio |-> Null, error |-> "fsTooSmallError"]
        ELSE IF exceedsTurndown(accuracyData, maxSpan, calibratedSpan)
        THEN [specs |-> Null, ratio |-> [isNull |-> FALSE, num |-> maxSpan, den |-> calibratedSpan],
              error |-> "turndownRatioError"]
        ELSE [specs |-> calculatePerformanceSpecs(model, sel, maxSpan, calibratedSpan),
              ratio |-> [isNull |-> FALSE, num |-> maxSpan, den |-> calibratedSpan],
              error |-> "none"]

\* PerformanceCalculator: { specs, ratio, error } of the useMemo
evaluate(model, sel, range) ==
    LET rangeOpt == selectedRangeOption(model, sel)
        low == parseFloat(range.low)
        high == parseFloat(range.high)
        calibratedSpan == high.value - low.value
        minSpan == rangeOpt.minSpan
        maxSpan == rangeOpt.max - rangeOpt.min
        accuracyData == getAccuracyFunction(model.id, sel["pressureRange"])
    IN  IF rangeOpt = Null
        THEN [specs |-> Null, ratio |-> Null, error |-> "Pressure range not selected."]
        ELSE IF range.low = <<>> \/ range.high = <<>> \/ low.nan \/ high.nan
        THEN [specs |-> calculatePerformanceSpecs(model, sel, 1, 1), ratio |-> Null, error |-> "none"]
        ELSE IF low.value >= high.value
        THEN [specs |-> Null, ratio |-> Null, error |-> "rangeError_lowHigh"]
        ELSE IF low.value < rangeOpt.min \/ high.value > rangeOpt.max
        THEN [specs |-> Null, ratio |-> Null, error |-> "rangeError_minMax"]
        ELSE IF calibratedSpan < minSpan
        THEN [specs |-> Null, ratio |-> Null, error |-> "fsTooSmallError"]
        ELSE IF exceedsTurndown(accuracyData, maxSpan, calibratedSpan)
        THEN [specs |-> Null, ratio |-> [isNull |-> FALSE, num |-> maxSpan, den |-> calibratedSpan],
              error |-> "turndownRatioError"]
        ELSE [specs |-> calculatePerformanceSpecs(model, sel, maxSpan, calibratedSpan),
              ratio |-> [isNull |-> FALSE, num |-> maxSpan, den |-> calibratedSpan],
              error |-> "none"]

(***************************************************************************)
(* Host state (App)                                                        *)
(***************************************************************************)
VARIABLES
    selectedModelId,   \* '' (written "") or the id of the active model
    selections,        \* the selection map
    tag,               \* tag number text
    customRange,       \* [low, high]: raw text of the custom calibration range
    specialRequest,    \* special request text
    fullModelCode,     \* text of the quick-configuration input field
    alert,             \* message of the alert raised by the last handler, "none" if none
    isPerformanceVisible,  \* the performance calculator is open
    userRange          \* [low, high]: raw text of the calculator's calibration range

vars == <<selectedModelId, selections, tag, customRange, specialRequest, fullModelCode, alert,
          isPerformanceVisible, userRange>>

calculatorVars == <<isPerformanceVisible, userRange>>

EmptyRange == [low |-> <<>>, high |-> <<>>]

\* ---- bounded inputs -----------------------------------------------------
TagTexts == {"", "PT-101"}
RequestTexts == {"", "oxygen clean"}
RangeTexts == {<<>>, <<"5">>}

\* texts typed into the quick-configuration field of the host
HostCodes ==
    { <<"X","Y","Z">>,
      <<"R","T","X","2","3","0","0","-","A","E","D","A","2","1","0","H","N","1","A","-","W","1","V","1","P","1">>,
      <<"r","t","x","2","3","0","0","a","e","d","a","5","1","0","h","n","1","a">>,
      <<"R","T","X","2","4","0","0","G","P","1","M","1">>,
      <<"R","T","X","2","5","0","0","-","D","A","D","D","1","5","V","3","P","2">>,
      <<"R","T","X","2","4","0","0","endash","K"," ","B","D","G","2">> }

\* categories and options the user picks from in the host specification:
\* the first MaxPickOptions options of a category and its last one (the
\* "none" code of weldNeck and manifold)
MaxPickOptions == 1
PickCategories == {"pressureRange", "processConnection", "weldNeck", "manifold",
                   "manifold_processConnection"}

pickOptions(category) ==
    {category.options[i].code : i \in {j \in DOMAIN category.options :
        j <= MaxPickOptions \/ j = Len(category.options)}}

\* ---- handlers -----------------------------------------------------------
Init ==
    /\ selectedModelId = ""
    /\ selections = EmptySelections
    /\ tag = ""
    /\ customRange = EmptyRange
    /\ specialRequest = ""
    /\ fullModelCode = <<>>
    /\ alert = "none"
    /\ isPerformanceVisible = FALSE
    /\ userRange = EmptyRange

\* mutant: the selections survive the model change
handleModelChange_keepsSelections(modelId) ==
    /\ modelId # selectedModelId
    /\ selectedModelId' = modelId
    /\ customRange' = EmptyRange
    /\ tag' = ""
    /\ specialRequest' = ""
    /\ fullModelCode' = <<>>
    /\ alert' = "none"
    /\ UNCHANGED <<selections, calculatorVars>>

\* <select id="model-select" onChange={handleModelChange}>
handleModelChange(modelId) ==
    /\ modelId # selectedModelId
    /\ selectedModelId' = modelId
    /\ selections' = EmptySelections
    /\ customRange' = EmptyRange
    /\ tag' = ""
    /\ specialRequest' = ""
    /\ fullModelCode' = <<>>
    /\ alert' = "none"
    /\ UNCHANGED calculatorVars

\* mutant: the custom range survives a change of the pressure range
handleSelectionsChange_keepsRange(newSelections) ==
    /\ customRange' = customRange
    /\ selections' = newSelections

handleSelectionsChange(newSelections) ==
    /\ customRange' = IF selections["pressureRange"] # newSelections["pressureRange"]
                      THEN EmptyRange ELSE customRange
    /\ selections' = newSelections

isManifoldSelected(sel) == sel["manifold"] # Unset /\ sel["manifold"] # VN

\* the categories Configurator renders for the model
isRendered(category, sel) ==
    category.part \in {"required", "additional"}
    \/ (category.part = "manifold" /\ isManifoldSelected(sel))

\* SelectionGroup: an option that fails validation is disabled
isOffered(category, optionCode, sel) ==
    /\ isRendered(category, sel)
    /\ optionCode \in optionCodes(category)
    /\ validate(category, optionCode, sel).isValid

\* Configurator.handleSelect followed by App.handleSelectionsChange
handleSelect(categoryId, optionCode) ==
    /\ selectedModelId # ""
    /\ hasCategory(getModel(selectedModelId), categoryId)
    /\ handleSelectionsChange(applySelection(getModel(selectedModelId), selections, categoryId, optionCode))
    /\ alert' = "none"
    /\ UNCHANGED <<selectedModelId, tag, specialRequest, fullModelCode, calculatorVars>>

setFullModelCode(text) ==
    /\ text # fullModelCode
    /\ fullModelCode' = text
    /\ alert' = "none"
    /\ UNCHANGED <<selectedModelId, selections, tag, customRange, specialRequest, calculatorVars>>

\* decode of the texts of HostCodes, evaluated once
decodeMemo == [text \in HostCodes \cup {<<>>} |-> decode(text)]

decodeOf(text) == IF text \in DOMAIN decodeMemo THEN decodeMemo[text] ELSE decode(text)

\* mutant: tag, custom range and special request are reset before the model
\* prefix is looked up
handleApplyFullCode_resetsFirst ==
    \E r \in {decodeOf(fullModelCode)} :
        \/ /\ r.status = "empty"
           /\ alert' = "none"
           /\ UNCHANGED <<selectedModelId, selections, tag, customRange, specialRequest, fullModelCode,
                          calculatorVars>>
        \/ /\ r.status = "alert_modelNotFound"
           /\ alert' = "alert_modelNotFound"
           /\ customRange' = EmptyRange
           /\ tag' = ""
           /\ specialRequest' = ""
           /\ UNCHANGED <<selectedModelId, selections, fullModelCode, calculatorVars>>
        \/ /\ r.status = "applied"
           /\ selectedModelId' = r.model
           /\ customRange' = EmptyRange
           /\ tag' = ""
           /\ specialRequest' = ""
           /\ selections' = r.newSelections
           /\ fullModelCode' = <<>>
           /\ alert' = "none"
           /\ UNCHANGED calculatorVars

\* mutant: with the model unchanged the decoded options are merged into the
\* previous map
handleApplyFullCode_mergesSelections ==
    \E r \in {decodeOf(fullModelCode)} :
        \/ /\ r.status = "empty"
           /\ alert' = "none"
           /\ UNCHANGED <<selectedModelId, selections, tag, customRange, specialRequest, fullModelCode,
                          calculatorVars>>
        \/ /\ r.status = "alert_modelNotFound"
           /\ alert' = "alert_modelNotFound"
           /\ UNCHANGED <<selectedModelId, selections, tag, customRange, specialRequest, fullModelCode,
                          calculatorVars>>
        \/ /\ r.status = "applied"
           /\ selectedModelId' = r.model
           /\ customRange' = EmptyRange
           /\ tag' = ""
           /\ specialRequest' = ""
           /\ selections' = [c \in CatIds |->
                                IF r.newSelections[c] = Unset /\ r.model = selectedModelId
                                THEN selections[c] ELSE r.newSelections[c]]
           /\ fullModelCode' = <<>>
           /\ alert' = "none"
           /\ UNCHANGED calculatorVars

handleApplyFullCode ==
    \E r \in {decodeOf(fullModelCode)} :
        \/ /\ r.status = "empty"
           /\ alert' = "none"
           /\ UNCHANGED <<selectedModelId, selections, tag, customRange, specialRequest, fullModelCode,
                          calculatorVars>>
        \/ /\ r.status = "alert_modelNotFound"
           /\ alert' = "alert_modelNotFound"
           /\ UNCHANGED <<selectedModelId, selections, tag, customRange, specialRequest, fullModelCode,
                          calculatorVars>>
        \/ /\ r.status = "applied"
           /\ selectedModelId' = r.model
           /\ customRange' = EmptyRange
           /\ tag' = ""
           /\ specialRequest' = ""
           /\ selections' = r.newSelections
           /\ fullModelCode' = <<>>
           /\ alert' = "none"
           /\ UNCHANGED calculatorVars

handleReset ==
    /\ selectedModelId' = ""
    /\ selections' = EmptySelections
    /\ tag' = ""
    /\ customRange' = EmptyRange
    /\ specialRequest' = ""
    /\ fullModelCode' = <<>>
    /\ alert' = "none"
    /\ UNCHANGED calculatorVars

\* Summary is rendered only while a model is selected
setTag(text) ==
    /\ selectedModelId # ""
    /\ text # tag
    /\ tag' = text
    /\ alert' = "none"
    /\ UNCHANGED <<selectedModelId, selections, customRange, specialRequest, fullModelCode, calculatorVars>>

setSpecialRequest(text) ==
    /\ selectedModelId # ""
    /\ text # specialRequest
    /\ specialRequest' = text
    /\ alert' = "none"
    /\ UNCHANGED <<selectedModelId, selections, tag, customRange, fullModelCode, calculatorVars>>

\* the two range inputs are disabled while no pressure range is selected
setCustomRange(field, text) ==
    /\ selectedModelId # ""
    /\ selections["pressureRange"] # Unset
    /\ text # customRange[field]
    /\ customRange' = [customRange EXCEPT ![field] = text]
    /\ alert' = "none"
    /\ UNCHANGED <<selectedModelId, selections, tag, specialRequest, fullModelCode, calculatorVars>>

\* "Calculate performance" button of Summary; PerformanceCalculator mounts
\* with an empty userRange
openPerformance ==
    /\ selectedModelId # ""
    /\ ~isPerformanceVisible
    /\ selections["pressureRange"] # Unset
    /\ rangeError(getModel(selectedModelId), selections, customRange) = "none"
    /\ customRange.low # <<>> /\ customRange.high # <<>>
    /\ isPerformanceVisible' = TRUE
    /\ userRange' = EmptyRange
    /\ alert' = "none"
    /\ UNCHANGED <<selectedModelId, selections, tag, customRange, specialRequest, fullModelCode>>

closePerformance ==
    /\ isPerformanceVisible
    /\ isPerformanceVisible' = FALSE
    /\ userRange' = EmptyRange
    /\ alert' = "none"
    /\ UNCHANGED <<selectedModelId, selections, tag, customRange, specialRequest, fullModelCode>>

setUserRange(field, text) ==
    /\ isPerformanceVisible
    /\ text # userRange[field]
    /\ userRange' = [userRange EXCEPT ![field] = text]
    /\ alert' = "none"
    /\ UNCHANGED <<selectedModelId, selections, tag, customRange, specialRequest, fullModelCode,
                   isPerformanceVisible>>

(***************************************************************************)
(* Host specification: model change, option picks, quick configuration,    *)
(* reset and the text fields                                               *)
(***************************************************************************)
\* an option is picked from a rendered category, among its enabled options
PickOption ==
    /\ selectedModelId # ""
    /\ \E categoryId \in PickCategories :
        \E optionCode \in pickOptions(getCategory(getModel(selectedModelId), categoryId)) :
            /\ isOffered(getCategory(getModel(selectedModelId), categoryId), optionCode, selections)
            /\ optionCode # selections[categoryId]
            /\ handleSelect(categoryId, optionCode)

ChangeModel == \E modelId \in ModelIds : handleModelChange(modelId)

TypeCode == \E text \in HostCodes : setFullModelCode(text)

TypeTag == \E text \in TagTexts : setTag(text)

TypeRequest == \E text \in RequestTexts : setSpecialRequest(text)

TypeCustomRange == \E field \in {"low", "high"} : \E text \in RangeTexts : setCustomRange(field, text)

Next ==
    \/ ChangeModel
    \/ PickOption
    \/ TypeCode
    \/ handleApplyFullCode
    \/ handleReset
    \/ TypeTag
    \/ TypeRequest
    \/ TypeCustomRange

Spec == Init /\ [][Next]_vars

(***************************************************************************)
(* Mutator specification: handleSelect called with any category and        *)
(* option of the pick domain, whether or not the option list offers it     *)
(***************************************************************************)
MutatorInit ==
    /\ selectedModelId \in ModelIds
    /\ selections = EmptySelections
    /\ tag = ""
    /\ customRange = EmptyRange
    /\ specialRequest = ""
    /\ fullModelCode = <<>>
    /\ alert = "none"
    /\ isPerformanceVisible = FALSE
    /\ userRange = EmptyRange

CallHandleSelect ==
    \E categoryId \in PickCategories :
        \E optionCode \in pickOptions(getCategory(getModel(selectedModelId), categoryId)) :
            handleSelect(categoryId, optionCode)

MutatorNext == CallHandleSelect

MutatorSpec == MutatorInit /\ [][MutatorNext]_vars

(***************************************************************************)
(* Codec specification: a fully specified configuration is on screen, its  *)
(* generated model number (line 1 followed by line 2 of the summary) is    *)
(* pasted into the quick-configuration field and applied                   *)
(***************************************************************************)
MaxBase == 2

\* option b of every category of the model (the last one where the list is shorter)
baseSelection(model, b) ==
    [c \in CatIds |->
        IF hasCategory(model, c)
        THEN getCategory(model, c).options[
                IF b <= Len(getCategory(model, c).options) THEN b
                ELSE Len(getCategory(model, c).options)].code
        ELSE Unset]

\* the last option of every category of the model
lastSelection(model) ==
    [c \in CatIds |->
        IF hasCategory(model, c)
        THEN getCategory(model, c).options[Len(getCategory(model, c).options)].code
        ELSE Unset]

baseSelections(model) == {baseSelection(model, b) : b \in 1..MaxBase} \cup {lastSelection(model)}

\* a base selection with any two options in two neighbouring categories
fullSelections(model) ==
    UNION {
        {[[base EXCEPT ![model.configuration[j].id] = o1] EXCEPT ![model.configuration[j + 1].id] = o2] :
            <<o1, o2>> \in optionCodes(model.configuration[j]) \X optionCodes(model.configuration[j + 1])} :
        <<base, j>> \in baseSelections(model) \X (1..(Len(model.configuration) - 1))}

fullSelectionsOf == [modelId \in ModelIds |-> fullSelections(getModel(modelId))]

isFullySpecified(model, sel) == \A c \in Range(model.configuration) : sel[c.id] # Unset

generatedCode(model, sel) == line1(model, sel) \o line2(model, sel)

CodecInit ==
    /\ selectedModelId \in ModelIds
    /\ selections \in fullSelectionsOf[selectedModelId]
    /\ tag = ""
    /\ customRange = EmptyRange
    /\ specialRequest = ""
    /\ fullModelCode = <<>>
    /\ alert = "none"
    /\ isPerformanceVisible = FALSE
    /\ userRange = EmptyRange

PasteGenerated ==
    /\ isFullySpecified(getModel(selectedModelId), selections)
    /\ setFullModelCode(generatedCode(getModel(selectedModelId), selections))

CodecNext ==
    \/ PasteGenerated
    \/ handleApplyFullCode

CodecSpec == CodecInit /\ [][CodecNext]_vars

(***************************************************************************)
(* Partial codec specification: a configuration with some categories not   *)
(* selected yet is on screen, its generated model number is pasted into    *)
(* the quick-configuration field and applied                               *)
(***************************************************************************)
encodedIds(model) ==
    {c.id : c \in {cat \in Range(model.configuration) : cat.part \in {"required", "additional"}}}

\* a base selection over the required and additional categories, as it is,
\* with one or two of them not selected, or with one of them alone selected
partialSelections(model) ==
    UNION {
        {clearManifoldSpectrum(model, base)}
        \cup {[c \in CatIds |-> IF c \in encodedIds(model) \ {c1, c2} THEN base[c] ELSE Unset] :
                <<c1, c2>> \in encodedIds(model) \X encodedIds(model)}
        \cup {[c \in CatIds |-> IF c = c1 THEN base[c] ELSE Unset] : c1 \in encodedIds(model)} :
        base \in baseSelections(model)}

partialSelectionsOf == [modelId \in ModelIds |-> partialSelections(getModel(modelId))]

PartialInit ==
    /\ selectedModelId \in ModelIds
    /\ selections \in partialSelectionsOf[selectedModelId]
    /\ tag = ""
    /\ customRange = EmptyRange
    /\ specialRequest = ""
    /\ fullModelCode = <<>>
    /\ alert = "none"
    /\ isPerformanceVisible = FALSE
    /\ userRange = EmptyRange

\* the model number shown by the summary is copied into the field
PasteShown == setFullModelCode(generatedCode(getModel(selectedModelId), selections))

PartialNext ==
    \/ PasteShown
    \/ handleApplyFullCode

PartialSpec == PartialInit /\ [][PartialNext]_vars

(***************************************************************************)
(* Decode specification: a text made of a model prefix and a few code      *)
(* tokens is in the quick-configuration field and is applied               *)
(***************************************************************************)
MaxTokens == 3

DecodeHeads ==
    { <<"R","T","X","2","3","0","0","-","A">>,
      <<"R","T","X","2","5","0","0","D">>,
      <<"R","T","X","2","4","0","0">>,
      <<"R","T","X","2","3","0","0","-","A","E","D","A","2","1","0","H","N","1","A","-">>,
      <<"R","T","X","2","3","0","0","A","E","D","A","2","1","0","H","N","1","A">> }

DecodeTokens ==
    { <<"E">>, <<"D">>, <<"A","2">>, <<"1">>, <<"A">>, <<"E","1">>, <<"X">> }

RECURSIVE tokenTexts(_)
tokenTexts(n) ==
    IF n = 0 THEN {<<>>}
    ELSE tokenTexts(n - 1) \cup {t \o rest : <<t, rest>> \in DecodeTokens \X tokenTexts(n - 1)}

DecodeInputs == {head \o rest : <<head, rest>> \in DecodeHeads \X tokenTexts(MaxTokens)}

DecodeInit ==
    /\ selectedModelId = ""
    /\ selections = EmptySelections
    /\ tag = ""
    /\ customRange = EmptyRange
    /\ specialRequest = ""
    /\ fullModelCode \in DecodeInputs
    /\ alert = "none"
    /\ isPerformanceVisible = FALSE
    /\ userRange = EmptyRange

DecodeNext == handleApplyFullCode

DecodeSpec == DecodeInit /\ [][DecodeNext]_vars

(***************************************************************************)
(* Detection specification: a text that starts like a model code, written  *)
(* in upper or lower case, with en/em dashes or with white space, is in     *)
(* the quick-configuration field and is applied                            *)
(***************************************************************************)
DetectHeads ==
    { <<"R","T","X","2","3","0","0","-","A">>, <<"R","T","X","2","3","0","0","A">>,
      <<"R","T","X","2","3","0","0">>, <<"R","T","X","2","3","0","0","-">>,
      <<"R","T","X","2","4","0","0","-","G">>, <<"R","T","X","2","4","0","0","G">>,
      <<"R","T","X","2","4","0","0","-","K">>, <<"R","T","X","2","4","0","0","K">>,
      <<"R","T","X","2","4","0","0">>, <<"R","T","X","2","4","0","0","-">>,
      <<"R","T","X","2","5","0","0","-","D">>, <<"R","T","X","2","5","0","0","D">>,
      <<"R","T","X","2","5","0","0">>, <<"R","T","X","2","5","0","0","-","A">>,
      <<"R","T","X">>, <<"R","T","X","2","6","0","0","-","A">> }

DetectTails == { <<>>, <<"E">>, <<"E","D","A","2">> }

toLowerCaseChar(ch) ==
    IF \E i \in DOMAIN UpperCase : UpperCase[i] = ch
    THEN LowerCase[CHOOSE i \in DOMAIN UpperCase : UpperCase[i] = ch]
    ELSE ch

toLowerCase(s) == [i \in 1..Len(s) |-> toLowerCaseChar(s[i])]

withDash(s, dash) == [i \in 1..Len(s) |-> IF s[i] = "-" THEN dash ELSE s[i]]

\* white space before, inside and after the text
spaced(s) ==
    <<" ">> \o SubSeq(s, 1, 3) \o <<"tab">> \o SubSeq(s, 4, Len(s)) \o <<"newline">>

\* the same text as a user may type or paste it
surfaceForms(s) ==
    {s, toLowerCase(s), withDash(s, "endash"), withDash(s, "emdash"), spaced(s)}

DetectInputs ==
    UNION {surfaceForms(head \o tail) : <<head, tail>> \in DetectHeads \X DetectTails}

DetectInit ==
    /\ selectedModelId = ""
    /\ selections = EmptySelections
    /\ tag = ""
    /\ customRange = EmptyRange
    /\ specialRequest = ""
    /\ fullModelCode \in DetectInputs
    /\ alert = "none"
    /\ isPerformanceVisible = FALSE
    /\ userRange = EmptyRange

DetectNext == handleApplyFullCode

DetectSpec == DetectInit /\ [][DetectNext]_vars

(***************************************************************************)
(* Performance specification: a pressure range is selected, a custom range *)
(* is entered in the summary, the performance calculator is opened and     *)
(* calibration limits are typed into it                                    *)
(***************************************************************************)
SummaryRangeTexts == {<<>>, <<"0">>, <<"1">>}

FieldTexts ==
    {<<>>, <<"0">>, <<"1","0">>, <<"5">>, <<"-","1">>, <<"4","0">>, <<"0",".","5">>, <<"x">>, <<"2">>}

PickRange ==
    /\ selectedModelId # ""
    /\ ~isPerformanceVisible
    /\ \E optionCode \in optionCodes(getCategory(getModel(selectedModelId), "pressureRange")) :
          /\ optionCode # selections["pressureRange"]
          /\ handleSelect("pressureRange", optionCode)

ChooseModel == ~isPerformanceVisible /\ ChangeModel

TypeSummaryRange ==
    /\ ~isPerformanceVisible
    /\ \E field \in {"low", "high"} : \E text \in SummaryRangeTexts : setCustomRange(field, text)

TypeUserRange == \E field \in {"low", "high"} : \E text \in FieldTexts : setUserRange(field, text)

PerfNext ==
    \/ ChooseModel
    \/ PickRange
    \/ TypeSummaryRange
    \/ openPerformance
    \/ TypeUserRange
    \/ closePerformance

PerfSpec == Init /\ [][PerfNext]_vars

(***************************************************************************)
(* Validator specification: a model is on screen with some selection map   *)
(* over the categories the validators read; the option lists of the        *)
(* validated categories are rendered (SelectionGroup) and an enabled       *)
(* option is picked                                                        *)
(***************************************************************************)
ValidatedCategories == {"electricalConnector", "manifold", "weldNeck"}

\* weld-neck values of the drawn maps: absent, none, a male and a female one
DrawnWeldNecks == {Unset, WN, <<"W","1">>, <<"W","4">>}

codesOrUnset(model, categoryId) == {Unset} \cup optionCodes(getCategory(model, categoryId))

validatorMaps(model) ==
    {[c \in CatIds |->
        CASE c = "housingType" -> t[1]
          [] c = "explosionProof" -> t[2]
          [] c = "weldNeck" -> t[3]
          [] c = "manifold" -> t[4]
          [] c = "processConnection" -> t[5]
          [] OTHER -> Unset] :
        t \in codesOrUnset(model, "housingType") \X codesOrUnset(model, "explosionProof")
                \X DrawnWeldNecks \X codesOrUnset(model, "manifold")
                \X codesOrUnset(model, "processConnection")}

ValidatorInit ==
    /\ selectedModelId \in ModelIds
    /\ selections \in validatorMaps(getModel(selectedModelId))
    /\ tag = ""
    /\ customRange = EmptyRange
    /\ specialRequest = ""
    /\ fullModelCode = <<>>
    /\ alert = "none"
    /\ isPerformanceVisible = FALSE
    /\ userRange = EmptyRange

PickValidated ==
    \E categoryId \in ValidatedCategories :
        \E optionCode \in optionCodes(getCategory(getModel(selectedModelId), categoryId)) :
            /\ isOffered(getCategory(getModel(selectedModelId), categoryId), optionCode, selections)
            /\ optionCode # selections[categoryId]
            /\ handleSelect(categoryId, optionCode)

ValidatorNext == PickValidated

ValidatorSpec == ValidatorInit /\ [][ValidatorNext]_vars

(***************************************************************************)
(* Gated specification: from the empty map of a model, options of the      *)
(* validated categories and of the categories their validators read are    *)
(* picked from the option lists, which disable what fails validation       *)
(***************************************************************************)
GatedCategories ==
    {"housingType", "explosionProof", "processConnection",
     "electricalConnector", "weldNeck", "manifold"}

PickGated ==
    \E categoryId \in GatedCategories :
        \E optionCode \in pickOptions(getCategory(getModel(selectedModelId), categoryId)) :
            /\ isOffered(getCategory(getModel(selectedModelId), categoryId), optionCode, selections)
            /\ optionCode # selections[categoryId]
            /\ handleSelect(categoryId, optionCode)

GatedNext == PickGated

GatedSpec == MutatorInit /\ [][GatedNext]_vars

(***************************************************************************)
(* Manifold specification: a model is on screen, a manifold is picked and  *)
(* the manifold spectrum rendered below it is filled in                    *)
(***************************************************************************)
\* the option picked in a spectrum category: its first one
spectrumPicks(category) == {category.options[1].code}

PickManifold ==
    \E optionCode \in optionCodes(getCategory(getModel(selectedModelId), "manifold")) :
        /\ isOffered(getCategory(getModel(selectedModelId), "manifold"), optionCode, selections)
        /\ optionCode # selections["manifold"]
        /\ handleSelect("manifold", optionCode)

PickSpectrum ==
    \E i \in DOMAIN orderedManifoldPartIds :
        \E optionCode \in spectrumPicks(getCategory(getModel(selectedModelId), orderedManifoldPartIds[i])) :
            /\ isOffered(getCategory(getModel(selectedModelId), orderedManifoldPartIds[i]),
                         optionCode, selections)
            /\ optionCode # selections[orderedManifoldPartIds[i]]
            /\ handleSelect(orderedManifoldPartIds[i], optionCode)

ManifoldNext == PickManifold \/ PickSpectrum

ManifoldSpec == MutatorInit /\ [][ManifoldNext]_vars

isRealManifold(sel) == sel["manifold"] \notin {Unset, VN}

isRealWeldNeck(sel) == sel["weldNeck"] \notin {Unset, WN}

manifoldPartIds(model) == {c.id : c \in {cat \in Range(model.configuration) : cat.part = "manifold"}}

\* C1: on RTX2300A / RTX2400G, after any sequence of handleSelect calls from
\* the empty map, the map never holds a real manifold together with a real
\* weld neck; a step that selects a real manifold leaves weldNeck = 'WN', a
\* step that selects a real weld neck leaves manifold = 'VN' and no value in
\* any category of part 'manifold'.
C1_Exclusive ==
    supportsBoth(getModel(selectedModelId)) =>
        ~(isRealManifold(selections) /\ isRealWeldNeck(selections))

C1_Forced ==
    supportsBoth(getModel(selectedModelId)) =>
        /\ (isRealManifold(selections') /\ selections'["manifold"] # selections["manifold"])
              => selections'["weldNeck"] = WN
        /\ (isRealWeldNeck(selections') /\ selections'["weldNeck"] # selections["weldNeck"])
              => /\ selections'["manifold"] = VN
                 /\ \A c \in manifoldPartIds(getModel(selectedModelId)) : selections'[c] = Unset

C1_ManifoldWeldNeckExclusive == [](C1_Exclusive) /\ [][C1_Forced]_vars

\* a real weld neck was selected over a manifold spectrum: manifold is 'VN'
C1_Witness ==
    /\ selectedModelId = "RTX2300A"
    /\ isRealWeldNeck(selections)
    /\ selections["manifold"] = VN
    /\ selections["manifold_processConnection"] = Unset
    /\ selections["processConnection"] # Unset

(***************************************************************************)
(* Claims on the host specification                                        *)
(***************************************************************************)
\* C3: in every state reachable through model change, option picks, code
\* decode and reset, every value present in the selection map is a code of
\* the options of that category in the active model.
C3_CatalogMembership ==
    \A c \in CatIds :
        selections[c] # Unset =>
            /\ selectedModelId # ""
            /\ hasCategory(getModel(selectedModelId), c)
            /\ selections[c] \in optionCodes(getCategory(getModel(selectedModelId), c))

\* a decoded map (leniently matched explosionProof 'A-') on which a real
\* manifold was then picked, forcing weldNeck to 'WN'
C3_Witness ==
    /\ selectedModelId = "RTX2300A"
    /\ selections["explosionProof"] = <<"A","-">>
    /\ selections["pressureRange"] = <<"A","5">>
    /\ isRealManifold(selections)
    /\ selections["weldNeck"] = WN

\* C4: a step that changes the active model leaves either the empty map
\* (handleModelChange, reset) or exactly the map decoded from the typed code
\* for the new model; handleModelChange always leaves the empty map.
C4_Step ==
    /\ (\E modelId \in ModelIds : handleModelChange(modelId)) => selections' = EmptySelections
    /\ selectedModelId' # selectedModelId =>
          \/ selections' = EmptySelections
          \/ /\ decodeOf(fullModelCode).status = "applied"
             /\ selectedModelId' = decodeOf(fullModelCode).model
             /\ selections' = decodeOf(fullModelCode).newSelections

C4_ModelChangeClears == [][C4_Step]_vars

\* RTX2500D made active by a decode, holding only decoded values
C4_Witness ==
    /\ selectedModelId = "RTX2500D"
    /\ selections["wettedMaterial"] = <<"A">>
    /\ selections["manifold"] = <<"V","3">>
    /\ selections["processConnection"] = <<"5">>

\* C5: a step that changes the selected pressure-range code leaves the
\* custom calibration range empty.
C5_Step ==
    selections'["pressureRange"] # selections["pressureRange"] => customRange' = EmptyRange

C5_RangeChangeClearsCustomRange == [][C5_Step]_vars

\* a custom range entered for the selected pressure range
C5_Witness ==
    /\ selections["pressureRange"] = <<"A","2">>
    /\ customRange.low # <<>>
    /\ customRange.high # <<>>

\* C8: handleApplyFullCode on a non-empty cleaned input that starts with
\* none of the candidate prefixes raises the model-not-found alert and
\* leaves model, selections, tag, custom range and special request as they
\* were.
startsWithNoPrefix(code) == \A e \in Range(prefixes) : ~startsWith(code, e.key)

C8_Step ==
    (/\ handleApplyFullCode
     /\ cleanCode(fullModelCode) # <<>>
     /\ startsWithNoPrefix(cleanCode(fullModelCode)))
    => /\ alert' = "alert_modelNotFound"
       /\ UNCHANGED <<selectedModelId, selections, tag, customRange, specialRequest>>

encodedCategoryIds(model) ==
    {c.id : c \in {cat \in Range(model.configuration) : cat.part \in {"required", "additional"}}}

\* C2: applying the generated model number (line 1 followed by line 2) of a
\* fully specified selection map is a successful decode that detects the
\* same model and gives back the same option in every 'required' and
\* 'additional' category.
C2_Step ==
    (/\ handleApplyFullCode
     /\ isFullySpecified(getModel(selectedModelId), selections)
     /\ fullModelCode = generatedCode(getModel(selectedModelId), selections))
    => /\ alert' = "none"
       /\ fullModelCode' = <<>>
       /\ selectedModelId' = selectedModelId
       /\ \A c \in encodedCategoryIds(getModel(selectedModelId)) : selections'[c] = selections[c]

C2_RoundTrip == [][C2_Step]_vars

\* a decoded map: every encoded category is set, no manifold-spectrum
\* category is, and the field was cleared
C2_Witness ==
    /\ selectedModelId = "RTX2400K"
    /\ fullModelCode = <<>>
    /\ \A c \in encodedCategoryIds(getModel(selectedModelId)) : selections[c] # Unset
    /\ \A c \in manifoldPartIds(getModel(selectedModelId)) : selections[c] = Unset
    /\ selections["pressureRange"] = lastSelection(getModel(selectedModelId))["pressureRange"]

(***************************************************************************)
(* Claims on the decode specification                                      *)
(***************************************************************************)
\* the lengths of text with which an option matches the start of a remainder
\* in the required pass: its code, or its code without the trailing hyphen
matchLengths(option, remainder) ==
    {n \in {Len(option.code), Len(option.code) - 1} :
        \/ n = Len(option.code) /\ startsWith(remainder, option.code)
        \/ /\ n = Len(option.code) - 1
           /\ n >= 1
           /\ option.code[Len(option.code)] = "-"
           /\ startsWith(remainder, SubSeq(option.code, 1, n))}

categoryMatchLengths(category, remainder) ==
    UNION {matchLengths(o, remainder) : o \in Range(category.options)}

longestOf(lengths) == CHOOSE n \in lengths : \A m \in lengths : m <= n

\* position of the first required category with no option matching the
\* start of what the categories before it left, Len(categories) + 1 if none
RECURSIVE firstMiss(_, _, _)
firstMiss(categories, i, remainder) ==
    IF i > Len(categories) THEN i
    ELSE IF categoryMatchLengths(categories[i], remainder) = {} THEN i
    ELSE firstMiss(categories, i + 1,
            substring(remainder, longestOf(categoryMatchLengths(categories[i], remainder))))

optionsText(code) ==
    stripLeadingHyphens(substring(cleanCode(code), matchModel(cleanCode(code)).prefixLength))

\* C6: when the k-th required category (configuration order) has no option
\* matching the start of the remainder, the decoded map holds no value for
\* any required category from the k-th on, whatever text follows.
C6_Step ==
    (handleApplyFullCode /\ decodeOf(fullModelCode).status = "applied")
    => LET categories == requiredCategories[selectedModelId']
           k == firstMiss(categories, 1, optionsText(fullModelCode))
       IN  \A j \in k..Len(categories) : selections'[categories[j].id] = Unset

C6_RequiredShortCircuit == [][C6_Step]_vars

\* wettedMaterial 'E' matched, diaphragmFillFluid did not: pressureRange is
\* unset although 'A2' follows, and the additional pass took 'A2'
C6_Witness ==
    /\ selectedModelId = "RTX2300A"
    /\ selections["wettedMaterial"] = <<"E">>
    /\ selections["diaphragmFillFluid"] = Unset
    /\ selections["pressureRange"] = Unset
    /\ selections["manifold_additional"] = <<"A","2">>

\* the categories filled by the steps before the k-th
filledBefore(steps, k) == {steps[i].categoryId : i \in 1..(k - 1)}

\* the options the additional pass may take at a step: those of the
\* 'additional' and 'manifold' categories not filled yet whose code starts
\* the remainder
additionalCandidates(model, filled, remainder) ==
    UNION {
        {<<c.id, o.code>> : o \in {opt \in Range(c.options) : startsWith(remainder, opt.code)}} :
        c \in {cat \in Range(model.configuration) :
                  cat.part \in {"additional", "manifold"} /\ cat.id \notin filled}}

longestInRequired(model, step) ==
    LET category == getCategory(model, step.categoryId)
        lengths == categoryMatchLengths(category, step.remainder)
    IN  /\ category.part = "required"
        /\ step.matchedLength \in lengths
        /\ \A n \in lengths : n <= step.matchedLength
        /\ \E o \in Range(category.options) :
              /\ o.code = step.optionCode
              /\ step.matchedLength \in matchLengths(o, step.remainder)

longestInAdditional(model, steps, k) ==
    LET candidates == additionalCandidates(model, filledBefore(steps, k), steps[k].remainder)
    IN  /\ <<steps[k].categoryId, steps[k].optionCode>> \in candidates
        /\ steps[k].matchedLength = Len(steps[k].optionCode)
        /\ \A t \in candidates : Len(t[2]) <= steps[k].matchedLength

\* each step consumes the text it matched
consumes(steps, k) ==
    k < Len(steps) =>
        steps[k + 1].remainder = substring(steps[k].remainder, steps[k].matchedLength)

\* C7: at every step of a decode the option taken matches the longest text
\* among the candidates matching the start of the remainder: among the
\* options of the current category (code, or code without its trailing
\* hyphen) in the required pass, among the options of the unfilled
\* 'additional'/'manifold' categories in the additional pass; the decoded map
\* holds the option of every step.  A category with codes 'A' and 'AB' gives
\* 'AB' on 'AB...', in either order of the two options.
C7_Step ==
    (handleApplyFullCode /\ decodeOf(fullModelCode).status = "applied")
    => LET steps == decodeOf(fullModelCode).steps
           model == getModel(selectedModelId')
       IN  \A k \in DOMAIN steps :
              /\ IF steps[k].pass = "required"
                 THEN longestInRequired(model, steps[k])
                 ELSE longestInAdditional(model, steps, k)
              /\ consumes(steps, k)
              /\ selections'[steps[k].categoryId] = steps[k].optionCode

C7_Example ==
    /\ findBestMatch(<<[code |-> <<"A">>], [code |-> <<"A","B">>]>>, 1,
                     <<"A","B","C">>, NoMatch).optionCode = <<"A","B">>
    /\ findBestMatch(<<[code |-> <<"A","B">>], [code |-> <<"A">>]>>, 1,
                     <<"A","B","C">>, NoMatch).optionCode = <<"A","B">>

C7_LongestPrefix == [][C7_Step /\ C7_Example]_vars

\* 'E1' was taken for electricalConnector where 'E' of acceptanceData also
\* matched, after explosionProof 'A-' matched with its hyphen
C7_Witness ==
    /\ selectedModelId = "RTX2300A"
    /\ selections["explosionProof"] = <<"A","-">>
    /\ selections["electricalConnector"] = <<"E","1">>
    /\ selections["acceptanceData"] = Unset
    /\ selections["manifold_additional"] = <<"A","2">>
    /\ selections["lightningProtection"] = Unset

(***************************************************************************)
(* Claims on the performance specification                                 *)
(***************************************************************************)
bothNumeric(range) ==
    /\ range.low # <<>> /\ range.high # <<>>
    /\ ~parseFloat(range.low).nan /\ ~parseFloat(range.high).nan

RECURSIVE gcd(_, _)
gcd(a, b) == IF b = 0 THEN a ELSE gcd(b, a % b)

\* a / b = c / d for positive b and d and non-negative a and c, compared in
\* lowest terms
sameQuotient(a, b, c, d) ==
    /\ a \div gcd(a, b) = c \div gcd(c, d)
    /\ b \div gcd(a, b) = d \div gcd(c, d)

calculatorOpen == isPerformanceVisible /\ selectedRangeOption(getModel(selectedModelId), selections) # Null

result == evaluate(getModel(selectedModelId), selections, userRange)

\* C9: with a calibrated range that passes validation (both fields numeric,
\* low < high, min <= low, high <= max, high - low >= minSpan) the calculator
\* returns ratio = (max - min) / (high - low); on range A2 (0 to 40, minimum
\* span 10) the limits 0 and 10 give ratio 4.
C9_Ratio ==
    calculatorOpen =>
        LET opt == selectedRangeOption(getModel(selectedModelId), selections)
            low == parseFloat(userRange.low).value
            high == parseFloat(userRange.high).value
        IN  /\ (/\ bothNumeric(userRange)
                /\ low < high /\ opt.min <= low /\ high <= opt.max
                /\ high - low >= opt.minSpan)
               => /\ result.ratio # Null
                  /\ result.ratio.den > 0
                  /\ sameQuotient(result.ratio.num, result.ratio.den, opt.max - opt.min, high - low)
            /\ (/\ opt.min = 0 /\ opt.max = 40000 /\ opt.minSpan = 10000
                /\ userRange = [low |-> <<"0">>, high |-> <<"1","0">>])
               => /\ result.ratio # Null
                  /\ result.ratio.num = 4 * result.ratio.den
                  /\ result.error = "none"

\* the calculator shows ratio 4 for the limits 0 and 10 on range A2
C9_Witness ==
    /\ isPerformanceVisible
    /\ selectedModelId = "RTX2300A"
    /\ selections["pressureRange"] = <<"A","2">>
    /\ userRange = [low |-> <<"0">>, high |-> <<"1","0">>]
    /\ result.ratio # Null
    /\ result.specs # Null

\* C10: with both fields numeric, low >= high gives the low/high error;
\* otherwise limits outside [min, max] give the out-of-bounds error;
\* otherwise a span below minSpan gives the span-too-small error; each with
\* specs = null and ratio = null.  On range A2 the limits 0 and 5 give the
\* span-too-small error and the limits -1 and 10 the out-of-bounds error.
C10_RangeErrors ==
    calculatorOpen =>
        LET opt == selectedRangeOption(getModel(selectedModelId), selections)
            low == parseFloat(userRange.low).value
            high == parseFloat(userRange.high).value
            expected ==
                IF low >= high THEN "rangeError_lowHigh"
                ELSE IF low < opt.min \/ high > opt.max THEN "rangeError_minMax"
                ELSE IF high - low < opt.minSpan THEN "fsTooSmallError"
                ELSE "none"
        IN  /\ (bothNumeric(userRange) /\ expected # "none")
               => /\ result.error = expected
                  /\ result.specs = Null
                  /\ result.ratio = Null
            /\ (/\ opt.min = 0 /\ opt.max = 40000 /\ opt.minSpan = 10000
                /\ userRange = [low |-> <<"0">>, high |-> <<"5">>])
               => result.error = "fsTooSmallError"
            /\ (/\ opt.min = 0 /\ opt.max = 40000 /\ opt.minSpan = 10000
                /\ userRange = [low |-> <<"-","1">>, high |-> <<"1","0">>])
               => result.error = "rangeError_minMax"

\* the calculator shows the span-too-small error for the limits 0 and 5 on
\* range A2
C10_Witness ==
    /\ isPerformanceVisible
    /\ selectedModelId = "RTX2300A"
    /\ selections["pressureRange"] = <<"A","2">>
    /\ userRange = [low |-> <<"0">>, high |-> <<"5">>]
    /\ result.error = "fsTooSmallError"
    /\ result.specs = Null

\* a field holds text that parseFloat does not read as a number
notANumber(text) == text # <<>> /\ parseFloat(text).nan

\* C11: with a pressure range selected, a calibration field holding text
\* that does not parse as a number makes the calculator report the
\* not-a-number error and return no spec table.
C11_NotANumberError ==
    (calculatorOpen /\ (notANumber(userRange.low) \/ notANumber(userRange.high)))
    => /\ result.error = "rangeError_number"
       /\ result.specs = Null

\* the calibration limits pass the range checks of the calculator
validated(opt, range) ==
    /\ bothNumeric(range)
    /\ parseFloat(range.low).value < parseFloat(range.high).value
    /\ opt.min <= parseFloat(range.low).value
    /\ parseFloat(range.high).value <= opt.max
    /\ parseFloat(range.high).value - parseFloat(range.low).value >= opt.minSpan

\* C12: for a range code with an accuracy entry, a validated calibrated
\* range whose ratio is above maxRatio gives the turndown error and no spec
\* table, and a ratio at or below maxRatio never gives that error.  For the
\* function r <= 10 ? 0.04 : (r < 100 ? 0.004 + 0.0036 r : null) with
\* maxRatio 100, ratio 10 evaluates to 0.04 and ratio 100.001 is rejected.
C12_TurndownLimit ==
    /\ calculatorOpen =>
        LET opt == selectedRangeOption(getModel(selectedModelId), selections)
            info == getAccuracyFunction(selectedModelId, selections["pressureRange"])
            span == parseFloat(userRange.high).value - parseFloat(userRange.low).value
        IN  (info # NoAccuracy /\ validated(opt, userRange))
            => IF opt.max - opt.min > info.maxRatio * span
               THEN result.error = "turndownRatioError" /\ result.specs = Null
               ELSE result.error # "turndownRatioError"
    /\ evalPieces(Std100.pieces, 1, 10, 1) = [isNull |-> FALSE, num |-> 400, den |-> 10000]
    /\ exceedsTurndown(Std100, 100001, 1000)

\* range D1 (-10 to 10 kPa, maxRatio 20) calibrated 0 to 0.5: ratio 40 is
\* rejected
C12_Witness ==
    /\ isPerformanceVisible
    /\ selectedModelId = "RTX2500D"
    /\ selections["pressureRange"] = <<"D","1">>
    /\ userRange = [low |-> <<"0">>, high |-> <<"0",".","5">>]
    /\ result.error = "turndownRatioError"
    /\ result.specs = Null

(***************************************************************************)
(* Claims on the validator specification                                   *)
(***************************************************************************)
activeModel == getModel(selectedModelId)

isValidOption(categoryId, optionCode, sel) ==
    validate(getCategory(activeModel, categoryId), optionCode, sel).isValid

\* C13: on every model the manifold validator rejects every manifold option
\* other than 'VN' while weldNeck holds a code other than 'WN'; on
\* RTX2300A / RTX2400G the weld-neck validator rejects every weld-neck
\* option other than 'WN' while manifold holds a code other than 'VN'.
C13_ValidatorExclusion ==
    /\ isRealWeldNeck(selections) =>
          \A o \in optionCodes(getCategory(activeModel, "manifold")) \ {VN} :
              ~isValidOption("manifold", o, selections)
    /\ (supportsBoth(activeModel) /\ isRealManifold(selections)) =>
          \A o \in optionCodes(getCategory(activeModel, "weldNeck")) \ {WN} :
              ~isValidOption("weldNeck", o, selections)

\* RTX2400K with a real weld neck in the map: 'V1' is rejected although a
\* connector could be picked
C13_Witness ==
    /\ selectedModelId = "RTX2400K"
    /\ isRealWeldNeck(selections)
    /\ selections["electricalConnector"] # Unset
    /\ ~isValidOption("manifold", <<"V","1">>, selections)

M20Connectors == {<<"E","1">>, <<"E","2">>, <<"E","3">>, <<"E","4">>, <<"E","5">>}
NPTConnectors == {<<"E","6">>, <<"E","7">>, <<"E","8">>, <<"E","9">>, <<"E","A">>}
connectorCodes == optionCodes(getCategory(activeModel, "electricalConnector"))

\* C14: with no housing type selected every connector is invalid; otherwise
\* an M20 connector (E1..E5) is valid only under housing type '2' and an NPT
\* connector (E6..E9, EA) only under housing type '1'.
C14_ConnectorThread ==
    \A o \in connectorCodes :
        /\ selections["housingType"] = Unset => ~isValidOption("electricalConnector", o, selections)
        /\ (selections["housingType"] # Unset /\ isValidOption("electricalConnector", o, selections))
           => /\ o \in M20Connectors => selections["housingType"] = <<"2">>
              /\ o \in NPTConnectors => selections["housingType"] = <<"1">>

\* NPT housing, an NPT connector was picked and the M20 'E2' is refused
C14_Witness ==
    /\ selections["housingType"] = <<"1">>
    /\ selections["electricalConnector"] = <<"E","7">>
    /\ ~isValidOption("electricalConnector", <<"E","2">>, selections)

ExplosionProofTypes == {<<"D","-">>, <<"E","-">>, <<"F","-">>}
NonExplosionProofConnectors == {<<"E","1">>, <<"E","4">>, <<"E","5">>, <<"E","6">>, <<"E","9">>, <<"E","A">>}

threadCompatible(o, housingType) ==
    \/ o \in M20Connectors /\ housingType = <<"2">>
    \/ o \in NPTConnectors /\ housingType = <<"1">>

\* C15: under explosion proof 'D-', 'E-' or 'F-' the connectors E1, E4, E5,
\* E6, E9, EA are invalid; a connector outside that subset (E2, E3, E7, E8)
\* whose thread matches the housing is valid under any explosion-proof
\* selection.
C15_ConnectorExplosionProof ==
    /\ selections["explosionProof"] \in ExplosionProofTypes =>
          \A o \in NonExplosionProofConnectors : ~isValidOption("electricalConnector", o, selections)
    /\ \A o \in connectorCodes \ NonExplosionProofConnectors :
          threadCompatible(o, selections["housingType"])
          => isValidOption("electricalConnector", o, selections)

\* explosion proof 'D-' with the NPT housing: 'E8' was picked, 'E9' is refused
C15_Witness ==
    /\ selections["explosionProof"] = <<"D","-">>
    /\ selections["housingType"] = <<"1">>
    /\ selections["electricalConnector"] = <<"E","8">>
    /\ ~isValidOption("electricalConnector", <<"E","9">>, selections)

MaleWeldNecks == {<<"W","1">>, <<"W","2">>, <<"W","3">>}
FemaleWeldNecks == {<<"W","4">>, <<"W","5">>, <<"W","6">>, <<"W","7">>, <<"W","8">>, <<"W","9">>,
                    <<"W","A">>, <<"W","B">>, <<"W","C">>}
MaleProcessConnections == {<<"2">>, <<"3">>, <<"4">>}

\* C16: on RTX2300A / RTX2400G 'WN' is always valid; any other weld neck is
\* invalid while no process connection is selected; with no real manifold a
\* male weld neck (W1..W3) is valid exactly when the process connection is
\* '1' and a female one (W4..W9, WA..WC) exactly when it is '2', '3' or '4'.
C16_WeldNeckGender ==
    supportsBoth(activeModel) =>
        /\ isValidOption("weldNeck", WN, selections)
        /\ selections["processConnection"] = Unset =>
              \A o \in optionCodes(getCategory(activeModel, "weldNeck")) \ {WN} :
                  ~isValidOption("weldNeck", o, selections)
        /\ ~isRealManifold(selections) =>
              /\ \A o \in MaleWeldNecks :
                    isValidOption("weldNeck", o, selections)
                    <=> selections["processConnection"] = <<"1">>
              /\ \A o \in FemaleWeldNecks :
                    isValidOption("weldNeck", o, selections)
                    <=> selections["processConnection"] \in MaleProcessConnections

\* RTX2400G, process connection '4': the female 'W9' was picked, the male
\* 'W1' is refused
C16_Witness ==
    /\ selectedModelId = "RTX2400G"
    /\ selections["processConnection"] = <<"4">>
    /\ selections["weldNeck"] = <<"W","9">>
    /\ ~isValidOption("weldNeck", <<"W","1">>, selections)

\* the categories each validator is said to read
readCategories(categoryId) ==
    CASE categoryId = "electricalConnector" -> {"housingType", "explosionProof"}
      [] categoryId = "manifold" -> {"weldNeck"}
      [] categoryId = "weldNeck" -> {"manifold", "processConnection"}

\* categories whose value is varied, and the values given to them
VariedCategories ==
    {"housingType", "explosionProof", "weldNeck", "manifold", "processConnection",
     "electricalConnector", "display"}

variedValues(categoryId) ==
    IF categoryId = "weldNeck" THEN DrawnWeldNecks ELSE codesOrUnset(activeModel, categoryId)

\* the maps that differ from sel in one category the validator does not read
variants(categoryId, sel) ==
    UNION {{[sel EXCEPT ![c] = v] : v \in variedValues(c)} :
              c \in VariedCategories \ readCategories(categoryId)}

\* C17: an option that is valid under the selection map stays valid under
\* every map that agrees with it on the categories the validator reads
\* (housingType, explosionProof for connectors; weldNeck for manifold;
\* manifold, processConnection for weld neck); the validator yields a
\* verdict and a reason, and no selection map.
C17_ValidatorIndependence ==
    \A categoryId \in ValidatedCategories :
        \A o \in optionCodes(getCategory(activeModel, categoryId)) :
            /\ isValidOption(categoryId, o, selections) =>
                  \A other \in variants(categoryId, selections) :
                      isValidOption(categoryId, o, other)
            /\ DOMAIN validate(getCategory(activeModel, categoryId), o, selections)
                  = {"isValid", "reason"}

\* the picked connector 'E2' is valid, and stays valid when the process
\* connection and the manifold are taken out of the map
C17_Witness ==
    /\ selections["electricalConnector"] = <<"E","2">>
    /\ selections["processConnection"] # Unset
    /\ isRealManifold(selections)
    /\ isValidOption("electricalConnector", <<"E","2">>, selections)
    /\ isValidOption("electricalConnector", <<"E","2">>,
                     [selections EXCEPT !["processConnection"] = Unset, !["manifold"] = Unset])

(***************************************************************************)
(* Claims on the mutator specification (continued)                         *)
(***************************************************************************)
\* the map with every category of part 'manifold' set to its first / last option
spectrumFilled(model, sel, last) ==
    [c \in CatIds |->
        IF c \in manifoldPartIds(model)
        THEN LET options == getCategory(model, c).options
             IN  options[IF last THEN Len(options) ELSE 1].code
        ELSE sel[c]]

\* input maps for the cleanup: the current map, the current map with one
\* more spectrum value, and the current map with a full spectrum
cleanupInputs(model, sel) ==
    {sel, spectrumFilled(model, sel, FALSE), spectrumFilled(model, sel, TRUE)}
    \cup UNION {{[sel EXCEPT ![c] = v] : v \in optionCodes(getCategory(model, c))} :
                   c \in manifoldPartIds(model)}

noManifold(model, sel) ==
    /\ sel["manifold"] = VN
    /\ \A c \in manifoldPartIds(model) : sel[c] = Unset

C18_Returned ==
    \A input \in cleanupInputs(activeModel, selections) :
        noManifold(activeModel, applySelection(activeModel, input, "manifold", VN))

C18_Step ==
    (selections["manifold"] # VN /\ selections'["manifold"] = VN)
    => noManifold(activeModel, selections')

\* C18: on every model, applySelection with 'manifold' and 'VN' returns a map
\* with manifold = 'VN' and no value in any category of part 'manifold',
\* whatever manifold-spectrum values the input map held; a handleSelect step
\* that turns the manifold to 'VN' leaves such a map.
C18_ManifoldCleanup == [](C18_Returned) /\ [][C18_Step]_vars

\* RTX2500D holds a real manifold with a spectrum value, and 'VN' clears both
C18_Witness ==
    /\ selectedModelId = "RTX2500D"
    /\ isRealManifold(selections)
    /\ selections["manifold_processConnection"] # Unset
    /\ noManifold(activeModel, applySelection(activeModel, selections, "manifold", VN))

RECURSIVE concatCodes(_, _)
concatCodes(categories, sel) ==
    IF categories = <<>> THEN <<>>
    ELSE sel[Head(categories).id] \o concatCodes(Tail(categories), sel)

\* C19: line1 is the base code followed by the selected codes of the
\* 'required' categories in configuration order, line2 the selected codes of
\* the 'additional' categories in configuration order, an unset category
\* contributing nothing; the categories of part 'manifold' contribute to
\* neither line.
C19_EncodeLines ==
    /\ line1(activeModel, selections)
          = activeModel.baseCode \o concatCodes(partCategories(activeModel, {"required"}), selections)
    /\ line2(activeModel, selections)
          = concatCodes(partCategories(activeModel, {"additional"}), selections)
    /\ line1(activeModel, selections) = line1(activeModel, clearManifoldSpectrum(activeModel, selections))
    /\ line2(activeModel, selections) = line2(activeModel, clearManifoldSpectrum(activeModel, selections))

\* codes on both lines, some categories unset, and a manifold-spectrum value
\* in the map
C19_Witness ==
    /\ selections["pressureRange"] # Unset
    /\ selections["processConnection"] = Unset
    /\ isRealManifold(selections)
    /\ selections["manifold_processConnection"] # Unset
    /\ line1(activeModel, selections) = activeModel.baseCode \o selections["pressureRange"]
    /\ line2(activeModel, selections) = selections["weldNeck"] \o selections["manifold"]

(***************************************************************************)
(* Claims on the manifold specification                                    *)
(***************************************************************************)
manifoldCode == generateManifoldModelNumber(activeModel, selections)

typeTag(code) ==
    CASE code \in {<<"V","1">>, <<"V","2">>} -> <<"V","2">>
      [] code \in {<<"V","3">>, <<"V","4">>} -> <<"V","3">>
      [] code \in {<<"V","5">>, <<"V","6">>} -> <<"V","5">>

\* C20: manifoldCode is null exactly when manifold is unset or 'VN';
\* otherwise it is 'SS2000-', the type tag ('V2' for V1/V2, 'V3' for V3/V4,
\* 'V5' for V5/V6) and the selected codes of processConnection, material,
\* transmitterConnection, mountingBolts, pressureRating, sealType,
\* temperature, plug, additional of the manifold spectrum in that order, an
\* unset one contributing nothing; that order is the order of the
\* part='manifold' categories in every model's configuration.
C20_ManifoldCode ==
    /\ manifoldCode.isNull <=> selections["manifold"] \in {Unset, VN}
    /\ ~manifoldCode.isNull =>
          manifoldCode.text
             = <<"S","S","2","0","0","0","-">> \o typeTag(selections["manifold"])
                  \o selections["manifold_processConnection"] \o selections["manifold_material"]
                  \o selections["manifold_transmitterConnection"]
                  \o selections["manifold_mountingBolts"] \o selections["manifold_pressureRating"]
                  \o selections["manifold_sealType"] \o selections["manifold_temperature"]
                  \o selections["manifold_plug"] \o selections["manifold_additional"]
    /\ \A modelId \in ModelIds :
          LET categories == partCategories(getModel(modelId), {"manifold"})
          IN  [i \in DOMAIN categories |-> categories[i].id] = orderedManifoldPartIds

\* RTX2500D with the five-valve manifold 'V6', a plug and a temperature
\* picked, the seal type left unset: the code starts with 'SS2000-V5'
C20_Witness ==
    /\ selectedModelId = "RTX2500D"
    /\ selections["manifold"] = <<"V","6">>
    /\ selections["manifold_plug"] # Unset
    /\ selections["manifold_temperature"] # Unset
    /\ selections["manifold_sealType"] = Unset
    /\ ~manifoldCode.isNull
    /\ SubSeq(manifoldCode.text, 1, 9) = <<"S","S","2","0","0","0","-","V","5">>

(***************************************************************************)
(* Claims on the performance specification (continued)                     *)
(***************************************************************************)
summaryLine3 == transmitterLine3(activeModel, selections, customRange)

\* C21: line 3 has the custom form '{low} ~ {high} {unit}' exactly when a
\* pressure-range option is selected and the custom range is a valid custom
\* calibration (low < high, min <= low, high <= max, high - low >= minSpan);
\* with an option and any other custom range it is the option's
\* description, and with no option the placeholder.
C21_CustomLine ==
    selectedModelId # "" =>
        LET opt == selectedRangeOption(activeModel, selections)
        IN  IF opt = Null THEN summaryLine3.kind = "placeholder"
            ELSE IF validated(opt, customRange)
                 THEN /\ summaryLine3.kind = "custom"
                      /\ summaryLine3.low = customRange.low
                      /\ summaryLine3.high = customRange.high
                      /\ summaryLine3.unit = opt.unit
                 ELSE summaryLine3.kind = "description" /\ summaryLine3.option = opt.code

(***************************************************************************)
(* Claims on the decode specification (continued)                          *)
(***************************************************************************)
positionOf(categories, categoryId) ==
    CHOOSE i \in DOMAIN categories : categories[i].id = categoryId

\* the map holding the option of every step and nothing else
mapOfSteps(steps) ==
    [c \in CatIds |->
        IF \E k \in DOMAIN steps : steps[k].categoryId = c
        THEN steps[CHOOSE k \in DOMAIN steps : steps[k].categoryId = c].optionCode
        ELSE Unset]

\* the text left when the additional scan stopped: empty, or no unfilled
\* 'additional'/'manifold' category has an option that starts it
scanStopped(model, steps, remainder) ==
    \/ remainder = <<>>
    \/ additionalCandidates(model, filledBefore(steps, Len(steps) + 1), remainder) = {}

C22_Step ==
    handleApplyFullCode =>
        LET r == decodeOf(fullModelCode)
        IN  /\ r.status \in {"empty", "alert_modelNotFound", "applied"}
            /\ r.status = "applied" =>
                  LET steps == r.steps
                      model == getModel(r.model)
                      required == requiredCategories[r.model]
                  IN  /\ \A j, k \in DOMAIN steps :
                            /\ j < k => steps[j].categoryId # steps[k].categoryId
                            /\ (j < k /\ steps[k].pass = "required")
                               => /\ steps[j].pass = "required"
                                  /\ positionOf(required, steps[j].categoryId)
                                        < positionOf(required, steps[k].categoryId)
                      /\ \A k \in DOMAIN steps :
                            /\ steps[k].matchedLength >= 1
                            /\ steps[k].matchedLength <= Len(steps[k].remainder)
                            /\ consumes(steps, k)
                            /\ steps[k].pass = "additional"
                               => getCategory(model, steps[k].categoryId).part
                                     \in {"additional", "manifold"}
                      /\ scanStopped(model, steps, r.codeRemainder)
                      /\ (steps # <<>> =>
                            r.codeRemainder = substring(steps[Len(steps)].remainder,
                                                        steps[Len(steps)].matchedLength))
                      /\ selections' = mapOfSteps(steps)
                      /\ alert' = "none"

\* C22: decode ends without raising on every input with a recognized model
\* prefix: the required pass takes each required category at most once and
\* in order, every step of the additional scan consumes at least one
\* character and fills a category that was unfilled, the scan stops when
\* nothing matches, and the text left over is dropped while the map built so
\* far is applied.
C22_DecodeTerminates == [][C22_Step]_vars

\* 'E' fills wettedMaterial, 'E1' the connector, and the scan stops on '1',
\* which is dropped
C22_Witness ==
    /\ fullModelCode = <<"R","T","X","2","3","0","0","-","A","E","E","1","1">>
    /\ decodeOf(fullModelCode).status = "applied"
    /\ Len(decodeOf(fullModelCode).steps) = 2
    /\ decodeOf(fullModelCode).codeRemainder = <<"1">>
    /\ decodeOf(fullModelCode).newSelections["electricalConnector"] = <<"E","1">>

(***************************************************************************)
(* Claims on the detection specification                                   *)
(***************************************************************************)
modelNumberOf(model) == beforeFirstHyphen(model.baseCode)

\* the candidate prefixes with their models: base code with and without
\* hyphens, and the bare model number of a model that shares it with no other
candidatePrefixes ==
    UNION {{<<m.baseCode, m.id>>, <<removeHyphens(m.baseCode), m.id>>}
           \cup (IF \A other \in Range(baseProductModels) :
                       other.id # m.id => ~startsWith(other.baseCode, modelNumberOf(m))
                 THEN {<<modelNumberOf(m), m.id>>} ELSE {}) :
           m \in Range(baseProductModels)}

\* the canonical text: upper case, hyphens, no white space
canonical(text) ==
    SelectSeq([i \in 1..Len(text) |->
                  IF text[i] \in {"endash", "emdash"} THEN "-" ELSE toUpperCaseChar(text[i])],
              LAMBDA ch : ch \notin {" ", "tab", "newline"})

sameDecode(r1, r2) ==
    /\ r1.status = r2.status
    /\ r1.status = "applied" => r1.model = r2.model /\ r1.newSelections = r2.newSelections

C23_Step ==
    (handleApplyFullCode /\ canonical(fullModelCode) # <<>>) =>
        LET hits == {c \in candidatePrefixes : startsWith(canonical(fullModelCode), c[1])}
        IN  /\ IF hits = {}
               THEN alert' = "alert_modelNotFound" /\ selectedModelId' = selectedModelId
               ELSE /\ alert' = "none"
                    /\ \E c \in hits :
                          /\ \A d \in hits : Len(d[1]) <= Len(c[1])
                          /\ selectedModelId' = c[2]
            /\ \A form \in surfaceForms(fullModelCode) :
                  sameDecode(decodeOf(form), decodeOf(fullModelCode))

C23_Candidates ==
    /\ {c[1] : c \in candidatePrefixes} = {e.key : e \in Range(prefixes)}
    /\ <<"R","T","X","2","3","0","0">> \in {c[1] : c \in candidatePrefixes}
    /\ <<"R","T","X","2","5","0","0">> \in {c[1] : c \in candidatePrefixes}
    /\ <<"R","T","X","2","4","0","0">> \notin {c[1] : c \in candidatePrefixes}

\* C23: after uppercasing, dash normalisation and white-space removal the
\* decode selects the model owning the longest candidate prefix the text
\* starts with; the candidates are each base code with and without hyphens
\* and the bare model number only when one model alone has it ('RTX2300' and
\* 'RTX2500', not 'RTX2400'); texts that differ only in letter case, white
\* space or en/em dash against hyphen decode to the same model and
\* selections.
C23_ModelDetection == [][C23_Step /\ C23_Candidates]_vars

\* a text starting with 'RTX2500' selected RTX2500D, and 'E' went to the
\* acceptance data of that model
C23_Witness ==
    /\ selectedModelId = "RTX2500D"
    /\ fullModelCode = <<>>
    /\ selections["acceptanceData"] = <<"E">>
    /\ selections["wettedMaterial"] = Unset
    /\ alert = "none"

(***************************************************************************)
(* Claims on the gated specification                                       *)
(***************************************************************************)
\* C24: from the empty map of any model, after picks that were each valid
\* when they were made, the selected option of every category with a
\* validator (electricalConnector, weldNeck, manifold) is valid under the
\* current map.
C24_SelectedStayValid ==
    \A categoryId \in ValidatedCategories :
        selections[categoryId] # Unset
        => isValidOption(categoryId, selections[categoryId], selections)

(***************************************************************************)
(* Claims on the host specification (continued)                            *)
(***************************************************************************)
\* C25: in every state reached through model changes, option picks, decodes
\* of any text and resets, the map of RTX2300A / RTX2400G does not hold a
\* real manifold together with a real weld neck.
C25_HostExclusive ==
    selectedModelId \in {"RTX2300A", "RTX2400G"} =>
        \/ selections["manifold"] \in {Unset, VN}
        \/ selections["weldNeck"] \in {Unset, WN}

\* C26: in every state reached through model changes, option picks, decodes
\* and resets, while manifold is unset or 'VN' no category of part
\* 'manifold' holds a value.
C26_NoLingeringSpectrum ==
    (selectedModelId # "" /\ ~isRealManifold(selections)) =>
        \A c \in manifoldPartIds(activeModel) : selections[c] = Unset

(***************************************************************************)
(* Claims on the performance specification (accuracy)                      *)
(***************************************************************************)
\* C27: for every model, pressure-range option and calibrated range that
\* passes the range checks (low < high, within bounds, span >= minSpan) and
\* the ratio <= maxRatio check, the accuracy function returns a number: the
\* accuracy spec is numeric, also at ratio = maxRatio (RTX2300A, A5
\* calibrated 0 to 10 kPa, ratio 20).
C27_AccuracyDefined ==
    calculatorOpen =>
        LET opt == selectedRangeOption(activeModel, selections)
            info == getAccuracyFunction(selectedModelId, selections["pressureRange"])
            span == parseFloat(userRange.high).value - parseFloat(userRange.low).value
        IN  (/\ validated(opt, userRange)
             /\ info # NoAccuracy => opt.max - opt.min <= info.maxRatio * span)
            => /\ result.error = "none"
               /\ result.specs # Null
               /\ ~result.specs.accuracy.isNull

(***************************************************************************)
(* Claims on the partial codec specification                               *)
(***************************************************************************)
\* the map is over the required and additional categories and the field
\* holds its generated model number, which is applied
appliesGenerated ==
    /\ handleApplyFullCode
    /\ \A c \in manifoldPartIds(activeModel) : selections[c] = Unset
    /\ fullModelCode = generatedCode(activeModel, selections)

\* every category the decode assigned carries the value it had before
decodedIsSubMap == \A c \in CatIds : selections'[c] # Unset => selections'[c] = selections[c]

allRequiredSelected(model, sel) ==
    \A c \in Range(model.configuration) : c.part = "required" => sel[c.id] # Unset

\* C28 as stated: for every selection map over the required and additional
\* categories, fully or partially specified, the decode of its generated
\* line1 + line2 assigns only values the map has.
C28_NeverInvents == [][appliesGenerated => decodedIsSubMap]_vars

\* C28 amended: for every selection map over the required and additional
\* categories in which every required category is selected (the additional
\* ones fully or partially), the decode of its generated line1 + line2
\* assigns only values the map has.
C28_NeverInventsAfterRequired ==
    [][(appliesGenerated /\ allRequiredSelected(activeModel, selections)) => decodedIsSubMap]_vars

\* the generated number of a map with every required category and without
\* connector and weld neck is in the field, and its decode gives the map back
C28_Witness ==
    /\ selectedModelId = "RTX2300A"
    /\ allRequiredSelected(activeModel, selections)
    /\ selections["electricalConnector"] = Unset
    /\ selections["weldNeck"] = Unset
    /\ selections["mountingBracket"] # Unset
    /\ fullModelCode = generatedCode(activeModel, selections)
    /\ decodeOf(fullModelCode).status = "applied"
    /\ decodeOf(fullModelCode).newSelections = selections

(***************************************************************************)
(* Claims on the mutator specification (frame)                             *)
(***************************************************************************)
categoryIds(model) == {c.id : c \in Range(model.configuration)}

\* the keys at which two maps differ
changedKeys(before, after) == {c \in CatIds : before[c] # after[c]}

\* the keys applySelection may write next to the mutated one
coupledKeys(model, categoryId) ==
    IF categoryId \in {"manifold", "weldNeck"}
    THEN {"weldNeck", "manifold"} \cup manifoldPartIds(model)
    ELSE {}

C29_Returned ==
    \A categoryId \in categoryIds(activeModel) :
        \A optionCode \in optionCodes(getCategory(activeModel, categoryId)) :
            LET returned == applySelection(activeModel, selections, categoryId, optionCode)
            IN  /\ DOMAIN returned = CatIds
                /\ returned[categoryId] = optionCode
                /\ changedKeys(selections, returned)
                      \subseteq {categoryId} \cup coupledKeys(activeModel, categoryId)

C29_Step ==
    \E categoryId \in categoryIds(activeModel) :
        /\ selections'[categoryId] # Unset
        /\ changedKeys(selections, selections')
              \subseteq {categoryId} \cup coupledKeys(activeModel, categoryId)

\* C29: applySelection returns a map for every category and option and
\* leaves its input as it was; the returned map holds the new code at the
\* mutated category and differs from the input nowhere else, except - only
\* when the mutated category is 'manifold' or 'weldNeck' - at weldNeck,
\* manifold and the categories of part 'manifold'.
C29_MutatorFrame == [](C29_Returned) /\ [][C29_Step]_vars

\* over a real weld neck and a process connection, a new pressure range
\* changes the pressure range alone
C29_Witness ==
    /\ selectedModelId = "RTX2400G"
    /\ isRealWeldNeck(selections)
    /\ selections["processConnection"] # Unset
    /\ selections["pressureRange"] = <<"G","2">>
    /\ changedKeys(selections, applySelection(activeModel, selections, "pressureRange", <<"G","9">>))
          = {"pressureRange"}

(***************************************************************************)
(* Claims on the host specification (decode as a state change)             *)
(***************************************************************************)
recognized(text) == \E c \in candidatePrefixes : startsWith(canonical(text), c[1])

C30_Step ==
    (handleApplyFullCode /\ recognized(fullModelCode)) =>
        /\ \E c \in candidatePrefixes :
              /\ startsWith(canonical(fullModelCode), c[1])
              /\ \A d \in candidatePrefixes :
                    startsWith(canonical(fullModelCode), d[1]) => Len(d[1]) <= Len(c[1])
              /\ selectedModelId' = c[2]
        /\ selections' = mapOfSteps(decodeOf(fullModelCode).steps)
        /\ tag' = ""
        /\ customRange' = EmptyRange
        /\ specialRequest' = ""

\* C30: after handleApplyFullCode on a text with a recognized model prefix
\* the active model is the matched model, the selection map holds exactly
\* the pairs that decode assigned (no key of the previous map survives, also
\* when the model is the same), and the tag, the custom calibration range
\* and the special request are empty.
C30_DecodeReplacesState == [][C30_Step]_vars

\* the decode of 'RTX2400GP1M1' left a map with its two options only
C30_Witness ==
    /\ selectedModelId = "RTX2400G"
    /\ selections = [[EmptySelections EXCEPT !["manifold_processConnection"] = <<"P","1">>]
                        EXCEPT !["manifold_material"] = <<"M","1">>]
    /\ tag = ""
    /\ specialRequest = ""
    /\ customRange = EmptyRange
    /\ fullModelCode = <<>>
=============================================================================
